---- MODULE Spec2Model ----
(***************************************************************************)
(* G74 fault-current study of src/g74/psse.py: BkdyFaultStudy (the two     *)
(* pass breaker-duty runner and the result combiner), BkdyFile and         *)
(* extract_values (the report parser) and G74FaultInfeed (the equivalent   *)
(* machines of the embedded load).                                         *)
(*                                                                         *)
(* Units.  Fault times are integers in units of 0.1 ms (0.0001 s = 1,      *)
(* 0.01 s = 100, 0.06 s = 600).  Reactances are integers in units of       *)
(* 1e-4 p.u.  A number printed in a report is an integer in thousandths    *)
(* of the printed unit, so that the division by num_to_kA is a division.   *)
(***************************************************************************)
EXTENDS Integers, Sequences, FiniteSets, TLC

\* ------------------------------------------------------------------------
\* Bounds of the model
\* ------------------------------------------------------------------------
\* longest list of fault times a caller passes to calculate_fault_currents
MaxTimes == 3

\* ------------------------------------------------------------------------
\* Program constants (src/g74/constants.py)
\* ------------------------------------------------------------------------
\* constants.G74.min_fault_time = 0.0
G74MinFaultTime == 0
\* constants.G74.peak_fault_time = 0.01
G74PeakFaultTime == 100
\* constants.PSSE.min_fault_time = 0.0001
PsseMinFaultTime == 1
\* constants.G74.t11 = 0.04
T11 == 400
\* constants.G74.x11 = (1 - rpos**2)**0.5 with rpos = (1/(1+2.76**2))**0.5
X11 == 9402
\* constants.G74.tx_x = 0.6
TxX == 6000
\* constants.BkdyFileOutput.num_to_kA = 1000.0 (convert_to_kA is True)
NumToKA == 1000
\* expected_length of both line types in BkdyFileOutput.col_positions
ExpectedLength == 7

\* ------------------------------------------------------------------------
\* Generic helpers
\* ------------------------------------------------------------------------
Range(s) == {s[k] : k \in DOMAIN s}

RECURSIVE SeqsUpTo(_, _)
\* all sequences over S of length at most n
SeqsUpTo(S, n) ==
    IF n = 0 THEN {<<>>}
    ELSE LET shorter == SeqsUpTo(S, n - 1)
         IN  shorter \cup {Append(s, x) : s \in {q \in shorter : Len(q) = n - 1}, x \in S}

RECURSIVE InsertSorted(_, _)
InsertSorted(s, x) ==
    IF s = <<>> THEN <<x>>
    ELSE IF x < Head(s) THEN <<x>> \o s
    ELSE <<Head(s)>> \o InsertSorted(Tail(s), x)

RECURSIVE SortAscending(_)
\* list.sort(): ascending, duplicates kept
SortAscending(s) ==
    IF s = <<>> THEN <<>> ELSE InsertSorted(SortAscending(Tail(s)), Head(s))

IsSorted(s) == \A k \in 1..(Len(s) - 1) : s[k] <= s[k + 1]

Max2(a, b) == IF a >= b THEN a ELSE b

RECURSIVE ISqrtBetween(_, _, _)
\* largest r in lo..hi with r*r <= n (lo*lo <= n is given)
ISqrtBetween(lo, hi, n) ==
    IF lo >= hi THEN lo
    ELSE LET mid == (lo + hi + 1) \div 2
         IN  IF mid * mid <= n THEN ISqrtBetween(mid, hi, n)
             ELSE ISqrtBetween(lo, mid - 1, n)

\* x.pow(0.5) on the fixed-point grid: the square root rounded down
ISqrt(n) == ISqrtBetween(0, 46340, n)

\* ------------------------------------------------------------------------
\* The network: two load buses, both with an equivalent machine; bus 1 is
\* a 33 kV bus (tier A) and bus 2 an 11 kV bus (tier B)
\* ------------------------------------------------------------------------
Buses == {1, 2}
Nominal == (1 :> 33) @@ (2 :> 11) @@ (3 :> 132)

\* fault times a caller may ask for: 0.0, 0.0001, 0.01 and 0.06 seconds
TimeChoices == {0, 1, 100, 600}

NoMachine == [present |-> FALSE]

\* ------------------------------------------------------------------------
\* G74FaultInfeed: the equivalent machines (src/g74/psse.py 1837-2072)
\* ------------------------------------------------------------------------
\* constants.G74.parameters_33: no transformer, every reactance slot X''
Parameters33 ==
    [tx_x |-> 0, xsubtr |-> X11, xtrans |-> X11, xsynch |-> X11, xsource |-> X11]

\* constants.G74.parameters_11: X'' reduced by the transformer reactance
Parameters11 ==
    [tx_x |-> TxX, xsubtr |-> X11 - TxX, xtrans |-> X11 - TxX,
     xsynch |-> X11 - TxX, xsource |-> X11 - TxX]

\* calculate_machine_mva_values: the template by nominal voltage
MachineTemplate(bus) == IF Nominal[bus] > 11 THEN Parameters33 ELSE Parameters11

RECURSIVE ExpSeries(_, _, _, _)
\* the sum of term, term*(-t/T11)/k, ... : the power series of exp
ExpSeries(t, k, term, acc) ==
    IF term = 0 \/ k > 24 THEN acc
    ELSE LET next == (term * t) \div (T11 * k)
         IN  ExpSeries(t, k + 1, 0 - next, acc + (0 - next))

\* math.exp(-fault_time / t11) in units of 1e-5
ExpNeg(t) == IF t = 0 THEN 100000 ELSE ExpSeries(t, 1, 100000, 100000)

\* XValue as it would be had the reactance decayed with e^(-t/T)
XValueDecaying(t) ==
    IF t > PsseMinFaultTime THEN (X11 * ExpNeg(t)) \div 100000 ELSE X11

\* calculate_machine_impedance, lines 1956-1959: the reactance at time t
XValue(t) ==
    IF t > PsseMinFaultTime THEN (X11 * 100000) \div ExpNeg(t) ELSE X11

\* lines 1966-1970: every reactance slot of every machine is set to x_value
AssignXValue(machines, x_value) ==
    [b \in DOMAIN machines |->
        [machines[b] EXCEPT !.xsubtr = x_value, !.xtrans = x_value, !.xsynch = x_value]]

\* lines 1972-1980: the transformer reactance is subtracted from each slot
SubtractTxX(machines) ==
    [b \in DOMAIN machines |->
        [machines[b] EXCEPT !.xsubtr = @ - machines[b].tx_x,
                            !.xtrans = @ - machines[b].tx_x,
                            !.xsynch = @ - machines[b].tx_x]]

\* MachineImpedance as it would be had a machine with a transformer kept
\* its reactances and had the transformer reactance subtracted from them again
MachineImpedanceCumulative(machines, t) ==
    SubtractTxX([b \in DOMAIN machines |->
                    IF machines[b].tx_x = 0
                    THEN AssignXValue(machines, XValue(t))[b] ELSE machines[b]])

\* calculate_machine_impedance without the update: the new df_machines
MachineImpedance(machines, t) == SubtractTxX(AssignXValue(machines, XValue(t)))

\* add_machines: machine_data_2 and seq_machine_data_3 for every machine; the
\* engine rejects the writes of the buses in failing and takes the others
AddMachines(machines, model, failing) ==
    [b \in DOMAIN model |->
        IF b \in DOMAIN machines /\ b \notin failing
        THEN [present |-> TRUE,
              xsource |-> machines[b].xsource,
              xsubtr  |-> machines[b].xsubtr,
              xtrans  |-> machines[b].xtrans,
              xsynch  |-> machines[b].xsynch]
        ELSE model[b]]

\* ------------------------------------------------------------------------
\* The report of one breaker-duty run.  A line is a record: start tells
\* whether it holds the FAULTED BUS marker, label whether it is a FAULT
\* CURRENT ("cur") or a THEVENIN IMPEDANCE ("imp") line, toks its tokens.
\* A token is a printed number (num), a bus number (int), nine asterisks
\* (stars), the word Infinity (inf) or NaN (nan).
\* ------------------------------------------------------------------------
Num(v) == [k |-> "num", v |-> v]
IntTok(n) == [k |-> "int", v |-> n]
Stars == [k |-> "stars", v |-> 0]
\* a run of seven or eight asterisks: an overflow in a narrower field
Stars7 == [k |-> "stars7", v |-> 0]
\* a word without digits
Text == [k |-> "text", v |-> 0]
Infinity == [k |-> "inf", v |-> 0]
\* the first part of an Infinity cut in two by the end of the line
Infin == [k |-> "infin", v |-> 0]
NaN == [k |-> "nan", v |-> 0]

Line(start, label, toks) == [start |-> start, label |-> label, toks |-> toks]

\* the overflow the external engine may show in a study: none at all, or one
\* bus whose rows, from fault time "from" on, have the token at position pos
\* of one line replaced by a sentinel, with or without a negative X, in the
\* runs of one pass or, pass being "", of both; or one bus with a negative X
\* and no sentinel
NoOverflow ==
    [bus |-> 0, tok |-> Stars, line |-> "imp", pos |-> 0, from |-> 0, xneg |-> FALSE,
     pass |-> ""]
Overflows ==
    { NoOverflow,
      [bus |-> 1, tok |-> Stars, line |-> "imp", pos |-> 7, from |-> 600, xneg |-> TRUE,
       pass |-> ""],
      [bus |-> 1, tok |-> Stars, line |-> "imp", pos |-> 2, from |-> 0, xneg |-> FALSE,
       pass |-> ""],
      [bus |-> 2, tok |-> Infinity, line |-> "cur", pos |-> 5, from |-> 100, xneg |-> FALSE,
       pass |-> ""],
      [bus |-> 2, tok |-> Num(85000), line |-> "imp", pos |-> 4, from |-> 100, xneg |-> TRUE,
       pass |-> "init"],
      [bus |-> 1, tok |-> Num(85000), line |-> "imp", pos |-> 4, from |-> 0, xneg |-> TRUE,
       pass |-> "decr"] }

\* the run of psspy.bkdy that returns an error code, if any: the pass, the
\* fault time and whether the report file then holds a report or nothing
NoError == [pass |-> "", t |-> 0, kind |-> "ok"]
RunErrors ==
    [pass : {"init", "decr"}, t : TimeChoices, kind : {"error_report", "error_empty"}]

\* the machine write the engine rejects, if any: the bus, and the call of
\* add_machines by its phase (the setup or the decrement pass) and fault time
NoReject == [phase |-> "", t |-> 0, bus |-> 0]
Rejections ==
    [phase : {"setup"}, t : {0}, bus : {1, 2}]
        \cup [phase : {"decr"}, t : TimeChoices, bus : {1, 2}]

\* the situations of the external engine explored: any one overflow, or any
\* one failing run, or any one rejected write
EngineSituations ==
    [overflow : Overflows, error : {NoError}, reject : {NoReject}]
        \cup [overflow : {NoOverflow}, error : RunErrors, reject : {NoReject}]
        \cup [overflow : {NoOverflow}, error : {NoError}, reject : Rejections]

RECURSIVE InfeedAmps(_, _)
\* the fault current the machines held in the model feed in: it falls as the
\* reactance written for a machine rises
InfeedAmps(model, buses) ==
    IF buses = {} THEN 0
    ELSE LET b == CHOOSE c \in buses : TRUE
         IN  (IF model[b].present THEN 9402000 \div model[b].xsubtr ELSE 0)
             + InfeedAmps(model, buses \ {b})

\* psspy.bkdy for one faulted bus: the FAULT CURRENT and THEVENIN IMPEDANCE
\* lines of bus b at fault time t, computed from the machines in the model
EngineRows(b, t, model, scen) ==
    LET ac  == 2000 + 500 * b + InfeedAmps(model, DOMAIN model)
        dc1 == 1200000 \div (300 + t)
        dc2 == IF b = 1 THEN dc1 - 100 ELSE dc1 + 100
        hit == scen.bus = b /\ t >= scen.from
        x   == IF hit /\ scen.xneg THEN 0 - 800 ELSE 800
        cur == << Num(ac * 1000), Num(85000), Num((ac - t \div 10) * 1000), Num(85000),
                  Num(dc1 * 1000), Num((ac + dc1) * 1000), Num((2 * ac + dc1) * 1000) >>
        imp == << Num(100), Num(x), Num(1000), Num(85000),
                  Num(dc2 * 1000), Num((ac + dc2) * 1000), Num((2 * ac + dc2) * 1000) >>
        put(toks, l) == IF hit /\ scen.line = l THEN [toks EXCEPT ![scen.pos] = scen.tok]
                        ELSE toks
    IN  << Line(FALSE, "", <<IntTok(b)>>),
           Line(FALSE, "cur", put(cur, "cur")),
           Line(FALSE, "imp", put(imp, "imp")) >>

RECURSIVE EngineSections(_, _, _, _)
EngineSections(buses, t, model, scen) ==
    IF buses = <<>> THEN <<>>
    ELSE EngineRows(Head(buses), t, model, scen) \o EngineSections(Tail(buses), t, model, scen)

\* the report file psspy.bkdy writes: a heading, the start marker and one
\* section per faulted bus
EngineReport(buses, t, model, scen) ==
    << Line(FALSE, "", <<IntTok(33)>>), Line(TRUE, "", <<>>) >>
        \o EngineSections(buses, t, model, scen)

\* ------------------------------------------------------------------------
\* extract_values and BkdyFile.process_bkdy_output (the report parser)
\* ------------------------------------------------------------------------
\* what reg_search.findall yields for one token and the loop of lines
\* 54-67 makes of it: Infin and ity are two matches, each 0.0; NaN has
\* been replaced by 0.0; a bus number has no decimal point and no match
TokenValues(tok) ==
    CASE tok.k = "num"   -> <<tok.v>>
      [] tok.k = "stars" -> <<0>>
      [] tok.k = "inf"   -> <<0, 0>>
      [] tok.k = "infin" -> <<0>>
      [] tok.k = "nan"   -> <<0>>
      [] OTHER           -> <<>>

RECURSIVE Extracted(_)
Extracted(toks) ==
    IF toks = <<>> THEN <<>> ELSE TokenValues(Head(toks)) \o Extracted(Tail(toks))

\* HasOverflowText as it would be had nan_term3, nine asterisks, been looked for
HasNineAsterisks(toks) == \E k \in DOMAIN toks : toks[k].k \in {"stars", "inf"}

\* lines 70-75: infinity_error ('*******') or 'Infinity' is in the line
HasOverflowText(toks) == \E k \in DOMAIN toks : toks[k].k \in {"stars", "stars7", "inf"}

\* extract_values(line, expected_length)
ExtractValues(toks, expected_length) ==
    LET extracted == Extracted(toks)
    IN  [raised |-> /\ Len(extracted) # expected_length
                    /\ expected_length > 0
                    /\ ~HasOverflowText(toks),
         values |-> extracted]

\* BkdyFileOutput.col_positions: column name -> index in the list (from 1)
\* CurrentCols as it would be had the DC and asymmetrical columns been left out
CurrentColsThree == [ik11 |-> 1, ibsym |-> 3, ip_method1 |-> 7]

CurrentCols == [ik11 |-> 1, ibsym |-> 3, idc_method1 |-> 5, ibasym |-> 6, ip_method1 |-> 7]
ImpedanceCols ==
    [r |-> 1, x |-> 2, v_prefault |-> 3, idc_method2 |-> 5, ibasym |-> 6, ip_method2 |-> 7]

\* regex_bus.search(line): the first run of digits of the line, -1 if none
FirstInt(toks) ==
    LET digits == {k \in DOMAIN toks : toks[k].k \in {"num", "int"}}
    IN  IF digits = {} THEN 0 - 1
        ELSE LET k == CHOOSE j \in digits : \A h \in digits : j <= h
                 v == toks[k].v
             IN  IF toks[k].k = "int" THEN v
                 ELSE (IF v < 0 THEN 0 - v ELSE v) \div 1000

\* StoreRow as it would be had every value been divided by num_to_kA
StoreRowAllDivided(df, bus, cols, values) ==
    LET old == IF bus \in DOMAIN df THEN df[bus] ELSE <<>>
        new == [name \in DOMAIN cols |-> values[cols[name]] \div NumToKA]
    IN  (bus :> (new @@ old)) @@ df

\* self.df.loc[bus, name] = value for every name of cols (lines 1801-1816)
StoreRow(df, bus, cols, values) ==
    LET old == IF bus \in DOMAIN df THEN df[bus] ELSE <<>>
        new == [name \in DOMAIN cols |->
                   IF cols[name] > 4 \/ "ik11" \in DOMAIN cols
                   THEN values[cols[name]] \div NumToKA
                   ELSE values[cols[name]]]
    IN  (bus :> (new @@ old)) @@ df

\* ParseLine as it would be had the bus not been reset after the THEVENIN
\* IMPEDANCE line
ParseLineKeepingBus(st, line) ==
    IF st.raised THEN st
    ELSE IF ~st.start_reached /\ ~line.start THEN st
    ELSE IF line.start THEN [st EXCEPT !.start_reached = TRUE]
    ELSE IF FirstInt(line.toks) # 0 - 1 /\ st.bus = 0
         THEN [st EXCEPT !.bus = FirstInt(line.toks)]
    ELSE IF line.label \in {"cur", "imp"}
         THEN LET cols == IF line.label = "cur" THEN CurrentCols ELSE ImpedanceCols
                  got  == ExtractValues(line.toks, ExpectedLength)
                  short == \E name \in DOMAIN cols : cols[name] > Len(got.values)
              IN  IF got.raised \/ short THEN [st EXCEPT !.raised = TRUE]
                  ELSE [st EXCEPT !.df = StoreRow(st.df, st.bus, cols, got.values)]
    ELSE st

\* one turn of the loop of lines 1782-1819
ParseLine(st, line) ==
    IF st.raised THEN st
    ELSE IF ~st.start_reached /\ ~line.start THEN st
    ELSE IF line.start THEN [st EXCEPT !.start_reached = TRUE]
    ELSE IF FirstInt(line.toks) # 0 - 1 /\ st.bus = 0
         THEN [st EXCEPT !.bus = FirstInt(line.toks)]
    ELSE IF line.label \in {"cur", "imp"}
         THEN LET cols == IF line.label = "cur" THEN CurrentCols ELSE ImpedanceCols
                  got  == ExtractValues(line.toks, ExpectedLength)
                  short == \E name \in DOMAIN cols : cols[name] > Len(got.values)
              IN  IF got.raised \/ short THEN [st EXCEPT !.raised = TRUE]
                  ELSE [st EXCEPT !.df = StoreRow(st.df, st.bus, cols, got.values),
                                  !.bus = IF line.label = "imp" THEN 0 ELSE @]
    ELSE st

RECURSIVE ParseLines(_, _)
ParseLines(st, lines) ==
    IF lines = <<>> THEN st ELSE ParseLines(ParseLine(st, Head(lines)), Tail(lines))

\* RowMax as it would be had the value of the first method been taken
RowFirst(row, a, b) == IF a \in DOMAIN row THEN row[a] ELSE row[b]

\* df[[a, b]].max(axis=1) of one row: the larger of the values present
RowMax(row, a, b) ==
    IF a \in DOMAIN row /\ b \in DOMAIN row THEN Max2(row[a], row[b])
    ELSE IF a \in DOMAIN row THEN row[a] ELSE row[b]

\* lines 1824-1827: the columns Ip and DC; a KeyError when a method's
\* column is in no row of the table
HasColumn(df, name) == \E b \in DOMAIN df : name \in DOMAIN df[b]

DerivedColumns(df) ==
    [b \in DOMAIN df |->
        LET row  == df[b]
            ip   == IF "ip_method1" \in DOMAIN row \/ "ip_method2" \in DOMAIN row
                    THEN ("ip" :> RowMax(row, "ip_method1", "ip_method2")) ELSE <<>>
            idc  == IF "idc_method1" \in DOMAIN row \/ "idc_method2" \in DOMAIN row
                    THEN ("idc" :> RowMax(row, "idc_method1", "idc_method2")) ELSE <<>>
        IN  ip @@ idc @@ row]

\* process_bkdy_output on the lines of an existing file: the parsed table,
\* or raised when a line cannot be processed, df then holding the rows
\* stored before the exception
ParseReport(lines) ==
    LET st == ParseLines([start_reached |-> FALSE, bus |-> 0, df |-> <<>>, raised |-> FALSE],
                         lines)
        missing == \E name \in {"ip_method1", "ip_method2", "idc_method1", "idc_method2"} :
                       ~HasColumn(st.df, name)
    IN  IF st.raised \/ missing THEN [raised |-> TRUE, df |-> st.df]
        ELSE [raised |-> FALSE, df |-> DerivedColumns(st.df)]

\* ------------------------------------------------------------------------
\* BkdyFile and BkdyFaultStudy (src/g74/psse.py 1272-1595, 1739-1834)
\* ------------------------------------------------------------------------
\* output_file = None once the file has been deleted
None == <<>>

\* BkdyFile.__init__
NewBkdyFile(output_file, fault_time) ==
    [output_file |-> output_file, fault_time |-> fault_time, df |-> <<>>]

\* self.df.loc[bus, name] = value on a table that holds rows already
MergeRows(new, old) ==
    [b \in DOMAIN new \cup DOMAIN old |->
        IF b \in DOMAIN new /\ b \in DOMAIN old THEN new[b] @@ old[b]
        ELSE IF b \in DOMAIN new THEN new[b] ELSE old[b]]

\* ProcessBkdyOutput as it would be had the check of an empty table been
\* left out
ProcessBkdyOutputLenient(bf, disk, del) ==
    IF bf.output_file = None
    THEN [raised |-> FALSE, df |-> bf.df, bf |-> bf, disk |-> disk]
    ELSE IF bf.output_file \notin DOMAIN disk
    THEN [raised |-> TRUE, df |-> <<>>, bf |-> bf, disk |-> disk]
    ELSE LET got == ParseReport(disk[bf.output_file])
         IN  IF got.raised
             THEN [raised |-> TRUE, df |-> <<>>,
                   bf |-> [bf EXCEPT !.df = MergeRows(got.df, @)], disk |-> disk]
             ELSE [raised |-> FALSE,
                   df     |-> got.df,
                   bf     |-> [bf EXCEPT !.df = got.df,
                                         !.output_file = IF del THEN None ELSE @],
                   disk   |-> IF del
                              THEN [f \in DOMAIN disk \ {bf.output_file} |-> disk[f]]
                              ELSE disk]

\* ProcessBkdyOutput as it would be had the cached table not been returned
\* once the file is deleted
ProcessBkdyOutputStrict(bf, disk, del) ==
    IF bf.output_file = None \/ bf.output_file \notin DOMAIN disk
    THEN [raised |-> TRUE, df |-> <<>>, bf |-> bf, disk |-> disk]
    ELSE LET got == ParseReport(disk[bf.output_file])
         IN  IF got.raised
             THEN [raised |-> TRUE, df |-> <<>>,
                   bf |-> [bf EXCEPT !.df = MergeRows(got.df, @)], disk |-> disk]
             ELSE [raised |-> FALSE,
                   df     |-> got.df,
                   bf     |-> [bf EXCEPT !.df = got.df,
                                         !.output_file = IF del THEN None ELSE @],
                   disk   |-> IF del
                              THEN [f \in DOMAIN disk \ {bf.output_file} |-> disk[f]]
                              ELSE disk]

\* BkdyFile.process_bkdy_output(delete) on the files of the disk: whether
\* it raised, the table returned, the object and the disk afterwards
ProcessBkdyOutput(bf, disk, del) ==
    IF bf.output_file = None
    THEN [raised |-> bf.df = <<>>, df |-> bf.df, bf |-> bf, disk |-> disk]
    ELSE IF bf.output_file \notin DOMAIN disk
    THEN [raised |-> TRUE, df |-> <<>>, bf |-> bf, disk |-> disk]
    ELSE LET got == ParseReport(disk[bf.output_file])
         IN  IF got.raised
             THEN [raised |-> TRUE, df |-> <<>>,
                   bf |-> [bf EXCEPT !.df = MergeRows(got.df, @)], disk |-> disk]
             ELSE [raised |-> FALSE,
                   df     |-> got.df,
                   bf     |-> [bf EXCEPT !.df = got.df,
                                         !.output_file = IF del THEN None ELSE @],
                   disk   |-> IF del
                              THEN [f \in DOMAIN disk \ {bf.output_file} |-> disk[f]]
                              ELSE disk]

\* lines 1430-1436: the buses with a negative X at some fault time
NegativeBuses(combined) ==
    {b \in Buses : \E n \in DOMAIN combined :
        b \in DOMAIN combined[n] /\ "x" \in DOMAIN combined[n][b] /\ combined[n][b].x < 0}

RECURSIVE SetToSeq(_)
\* the elements of a set of numbers in ascending order
SetToSeq(S) ==
    IF S = {} THEN <<>>
    ELSE LET m == CHOOSE x \in S : \A y \in S : x <= y
         IN  <<m>> \o SetToSeq(S \ {m})

\* round(fault_time, 3): to the nearest millisecond
Round3(t) == ((t + 5) \div 10) * 10

\* TimeClass as it would be had the fault time been compared without rounding
TimeClassExact(t) ==
    IF t = G74MinFaultTime THEN "min"
    ELSE IF t = G74PeakFaultTime THEN "peak"
    ELSE "other"

\* lines 1569-1580: the class of a fault time in process_combined_results
TimeClass(t) ==
    IF Round3(t) = G74MinFaultTime THEN "min"
    ELSE IF Round3(t) = G74PeakFaultTime THEN "peak"
    ELSE "other"

\* constants.SHEPD.cols_for_min_fault_time / _peak_ / _other_
ColsForMinFaultTime == {"ik11", "ibsym", "ibasym", "idc", "x", "r"}
ColsForPeakFaultTime == {"ip", "ibsym", "ibasym", "idc"}
ColsForOtherFaultTime == {"ibsym", "ibasym", "idc"}

\* ColsFor as it would be had the peak and the other columns been exchanged
ColsForExchanged(class) ==
    CASE class = "min"  -> ColsForMinFaultTime
      [] class = "peak" -> ColsForOtherFaultTime
      [] OTHER          -> ColsForPeakFaultTime

ColsFor(class) ==
    CASE class = "min"  -> ColsForMinFaultTime
      [] class = "peak" -> ColsForPeakFaultTime
      [] OTHER          -> ColsForOtherFaultTime

\* IbAsym as it would be had the division by 2 been left out
IbAsymNotHalved(ibsym, idc) == ISqrt(2 * ibsym * ibsym + idc * idc)

\* lines 1583-1586: sqrt((sqrt(2)*Ibsym)**2 / 2 + DC**2)
IbAsym(ibsym, idc) == ISqrt((2 * ibsym * ibsym) \div 2 + idc * idc)

\* one row of one fault time in process_combined_results
ProcessRow(row, class) ==
    LET cols == ColsFor(class)
        kept == [c \in cols |-> row[c]]
        x_r  == IF class = "min" THEN ("x_r" :> [num |-> row.x, den |-> row.r]) ELSE <<>>
    IN  ("ibasym" :> IbAsym(row.ibsym, row.idc)) @@ x_r @@ kept

\* process_combined_results: one column group per fault time of df
ProcessCombinedResults(df) ==
    [t \in DOMAIN df |-> [b \in DOMAIN df[t] |-> ProcessRow(df[t][b], TimeClass(t))]]

\* UpdateIbsym as it would be had df.update been given the whole of df_decr
UpdateAllColumns(df, df_decr) ==
    [t \in DOMAIN df |->
        [b \in DOMAIN df[t] |->
            IF t \in DOMAIN df_decr /\ b \in DOMAIN df_decr[t]
            THEN df_decr[t][b] @@ df[t][b]
            ELSE df[t][b]]]

\* line 1550: df.update(df_decr.xs(ibsym, axis=1, level=1, drop_level=False))
UpdateIbsym(df, df_decr) ==
    [t \in DOMAIN df |->
        [b \in DOMAIN df[t] |->
            IF t \in DOMAIN df_decr /\ b \in DOMAIN df_decr[t]
                                    /\ "ibsym" \in DOMAIN df_decr[t][b]
            THEN [df[t][b] EXCEPT !.ibsym = df_decr[t][b].ibsym]
            ELSE df[t][b]]]

\* add_busbar_data: the busbar columns beside the fault-time column groups
AddBusbarData(groups) ==
    [node   |-> [b \in Buses |-> [bus_voltage |-> Nominal[b]]],
     groups |-> groups]

\* lines 1466-1484: the two required fault times, appended when missing
AppendIfMissing(times, t) == IF t \in Range(times) THEN times ELSE Append(times, t)

\* RequiredTimes as it would be had the peak time been forgotten
RequiredTimesWithoutPeak(times) ==
    SortAscending(AppendIfMissing(times, G74MinFaultTime))

\* lines 1466-1487: the list of fault times that is run
RequiredTimes(times) ==
    SortAscending(AppendIfMissing(AppendIfMissing(times, G74MinFaultTime), G74PeakFaultTime))

\* the warnings of lines 1468 and 1478
MissingWarnings(times) ==
    (IF G74MinFaultTime \in Range(times) THEN <<>> ELSE <<"min_fault_time_added">>)
    \o (IF G74PeakFaultTime \in Range(times) THEN <<>> ELSE <<"peak_fault_time_added">>)

\* ------------------------------------------------------------------------
\* State
\* ------------------------------------------------------------------------
VARIABLES
    pc,                        \* where calculate_fault_currents stands
    delete,                    \* the delete argument
    engine,                    \* the situation of the external engine
    fault_times,               \* the list fault_times: the caller's list, changed in place
    missing,                   \* history: the required times the caller's list lacked
    i,                         \* index of the next fault time of the running loop
    df_machines,               \* G74FaultInfeed.df_machines
    psse_machines,             \* the machines held in the network model
    converted,                 \* PsseControl.converted
    files,                     \* the report files on disk, by name
    bkdy_files,                \* BkdyFaultStudy.bkdy_files: name -> BkdyFile
    df_initial,                \* df of line 1525, the combined initial pass
    result,                    \* the table calculate_fault_currents returns
    unreliable_faulted_buses,  \* BkdyFaultStudy.unreliable_faulted_buses
    log,                       \* the warnings and critical messages logged
    events,                    \* history: the machine writes, engine runs and parses
    parser,                    \* one BkdyFile object, its file and the calls made on it
    infeed,                    \* one G74FaultInfeed object and the network model it writes
    control                    \* one PsseControl object and the case the engine holds

study_vars == << pc, delete, engine, fault_times, missing, i, df_machines, psse_machines,
                 converted, files, bkdy_files, df_initial, result,
                 unreliable_faulted_buses, log, events >>

vars == << study_vars, parser, infeed, control >>

\* no BkdyFile object, no G74FaultInfeed object and no PsseControl object
\* under study
ParserIdle == [stage |-> "off"]
InfeedIdle == [stage |-> "off"]
ControlIdle == [stage |-> "off"]

\* the buses faulted by a run: the subsystem of the buses argument
FaultedBuses == <<1, 2>>

\* the buses whose machine writes the engine rejects in one call of add_machines
Failing(phase, t) ==
    IF engine.reject.phase = phase /\ engine.reject.t = t THEN {engine.reject.bus} ELSE {}

\* the engine situations and delete arguments of the studies explored: every
\* situation with delete=True (the caller's value, Fault_Calculations.py line
\* 90) and the plain one with delete=False
Plain == [overflow |-> NoOverflow, error |-> NoError, reject |-> NoReject]

\* the overflow the engine shows in the runs of a pass
OverflowIn(pass) ==
    IF engine.overflow.pass \in {"", pass} THEN engine.overflow ELSE NoOverflow
StudyInputs == (EngineSituations \X {TRUE}) \cup {<< Plain, FALSE >>}

\* an entry of the history: a call of add_machines ("write") or a run of
\* psspy.bkdy ("run"), its pass and fault time, df_machines and the machines
\* of the model after it, and whether the engine returned an error code
Event(op, pass, t, machines, model, failed) ==
    [op |-> op, pass |-> pass, t |-> t, machines |-> machines, model |-> model,
     failed |-> failed]

\* InitialMachineTime as it would be had the peak fault time been passed
InitialMachineTimePeak == G74PeakFaultTime

\* line 1463: the fault time the machines are set for before the initial pass
InitialMachineTime == 0

\* DecrementMachineTime as it would be had the t = 0 reactance been kept
DecrementMachineTimeZero(t) == InitialMachineTime

\* line 1530: the fault time the machines are set for before the decrement
\* run of fault time t
DecrementMachineTime(t) == t

Init ==
    /\ pc = "idle"
    /\ fault_times \in SeqsUpTo(TimeChoices, MaxTimes)
    /\ \E input \in StudyInputs : engine = input[1] /\ delete = input[2]
    /\ missing = {}
    /\ i = 1
    /\ df_machines = [b \in Buses |-> MachineTemplate(b)]
    /\ psse_machines = [b \in Buses |-> NoMachine]
    /\ converted = FALSE
    /\ files = <<>>
    /\ bkdy_files = <<>>
    /\ df_initial = <<>>
    /\ result = <<>>
    /\ unreliable_faulted_buses = <<>>
    /\ log = <<>>
    /\ events = <<>>
    /\ parser = ParserIdle
    /\ infeed = InfeedIdle
    /\ control = ControlIdle

\* calculate_machine_impedance(fault_time, update=True): df_machines is
\* recalculated and add_machines writes it to the model
UpdateMachines(phase, t) ==
    /\ df_machines' = MachineImpedance(df_machines, t)
    /\ psse_machines' = AddMachines(df_machines', psse_machines, Failing(phase, t))
    /\ events' = Append(events, Event("write", phase, t, df_machines', psse_machines',
                                    Failing(phase, t) # {}))

\* calculate_fault_currents, lines 1461-1509: the machines are set for
\* t = 0, the required fault times are added and the list is sorted
Setup ==
    /\ pc = "idle"
    /\ UpdateMachines("setup", InitialMachineTime)
    /\ fault_times' = RequiredTimes(fault_times)
    /\ missing' = {G74MinFaultTime, G74PeakFaultTime} \ Range(fault_times)
    /\ log' = log \o MissingWarnings(fault_times)
    /\ i' = 1
    /\ pc' = "initial_run"
    /\ UNCHANGED << control, parser, infeed, delete, engine, converted, files, bkdy_files, df_initial,
                    result, unreliable_faulted_buses >>

\* the name of the report file of a pass for a fault time (lines 1492-1499)
FileName(pass, t) == <<pass, t>>

\* BkdyFaultStudy.main(name, output_file, fault_time): the case is converted,
\* the engine runs and the file is registered; on an engine error the file may
\* hold a report or hold nothing
Main(pass, t) ==
    LET outcome == IF engine.error.pass = pass /\ engine.error.t = t
                   THEN engine.error.kind ELSE "ok"
        report  == EngineReport(FaultedBuses, t, psse_machines, OverflowIn(pass))
        f       == FileName(pass, t)
    IN  /\ converted' = TRUE
        /\ files' = IF outcome = "error_empty" THEN (f :> <<>>) @@ files
                     ELSE (f :> report) @@ files
        /\ log' = IF outcome = "ok" THEN log ELSE Append(log, "bkdy_error")
        /\ bkdy_files' = (t :> NewBkdyFile(f, t)) @@ bkdy_files
        /\ events' = Append(events, Event("run", pass, t, df_machines, psse_machines,
                                        outcome # "ok"))

\* lines 1512-1522: one run of the initial pass
InitialRun ==
    /\ pc = "initial_run"
    /\ Main("init", fault_times[i])
    /\ i' = i + 1
    /\ pc' = IF i = Len(fault_times) THEN "combine_initial" ELSE "initial_run"
    /\ UNCHANGED << control, parser, infeed, delete, engine, fault_times, missing, df_machines, psse_machines,
                    df_initial, result, unreliable_faulted_buses >>

\* combine_bkdy_output, lines 1417-1424: what each file registered in
\* bkdy_files parses to
ProcessAll == [k \in DOMAIN bkdy_files |-> ProcessBkdyOutput(bkdy_files[k], files, delete)]

\* bkdy_files and the disk once the files of the names in done are processed
BkdyFilesAfter(all, done) ==
    [k \in DOMAIN bkdy_files |-> IF k \in done THEN all[k].bf ELSE bkdy_files[k]]
\* DiskAfter as it would be had os.remove been left out
DiskAfterKeeping(done) == files

\* lines 1829-1832 of process_bkdy_output: the files of the names in done
\* are removed when delete is set
DiskAfter(done) ==
    LET gone == IF delete THEN {bkdy_files[k].output_file : k \in done} ELSE {}
    IN  [f \in DOMAIN files \ gone |-> files[f]]

\* lines 1428-1436: the combined table and the extended list of buses
Combined(all) == [k \in DOMAIN all |-> all[k].df]
\* UnreliableAfter as it would be had the list been assigned, not extended
UnreliableReplaced(combined) == SetToSeq(NegativeBuses(combined))

UnreliableAfter(combined) == unreliable_faulted_buses \o SetToSeq(NegativeBuses(combined))

RECURSIVE ParseEvents(_, _)
\* history: the files opened by process_bkdy_output for the names of keys
\* (an object whose file reference is None opens nothing), failed telling
\* whether the parse raised
ParseEvents(keys, failed) ==
    IF keys = <<>> THEN <<>>
    ELSE LET bf   == bkdy_files[Head(keys)]
             rest == ParseEvents(Tail(keys), failed)
         IN  IF bf.output_file = None THEN rest
             ELSE << Event("parse", bf.output_file[1], bf.output_file[2],
                           df_machines, psse_machines, failed) >> \o rest

\* a parse raised: the files that came before it in the loop are processed
CombineRaises(all) ==
    LET raising == {k \in DOMAIN all : all[k].raised}
    IN  /\ raising # {}
        /\ \E r \in raising : \E before \in SUBSET (DOMAIN all \ raising) :
              /\ bkdy_files' = BkdyFilesAfter(all, before \cup {r})
              /\ files' = DiskAfter(before)
              /\ events' = events \o ParseEvents(SetToSeq(before), FALSE)
                                  \o ParseEvents(<<r>>, TRUE)
        /\ pc' = "raised"
        /\ UNCHANGED << control, parser, infeed, delete, engine, fault_times, missing, i, df_machines,
                        psse_machines, converted, df_initial, result,
                        unreliable_faulted_buses, log >>

\* every file parsed: the objects keep their tables, the files are deleted
CombineReturns(all) ==
    /\ \A k \in DOMAIN all : ~all[k].raised
    /\ unreliable_faulted_buses' = UnreliableAfter(Combined(all))
    /\ bkdy_files' = BkdyFilesAfter(all, DOMAIN all)
    /\ files' = DiskAfter(DOMAIN all)
    /\ events' = events \o ParseEvents(SetToSeq(DOMAIN all), FALSE)

\* line 1525: the initial pass is combined
CombineInitial ==
    /\ pc = "combine_initial"
    /\ LET all == ProcessAll
       IN  \/ CombineRaises(all)
           \/ /\ CombineReturns(all)
              /\ df_initial' = Combined(all)
              /\ i' = 1
              /\ pc' = "decrement_update"
              /\ UNCHANGED << control, parser, infeed, delete, engine, fault_times, missing, df_machines,
                              psse_machines, converted, result, log >>

\* line 1530: the machines are recalculated for the fault time of the run
DecrementUpdate ==
    /\ pc = "decrement_update"
    /\ UpdateMachines("decr", DecrementMachineTime(fault_times[i]))
    /\ pc' = "decrement_run"
    /\ UNCHANGED << control, parser, infeed, delete, engine, fault_times, missing, i, converted, files,
                    bkdy_files, df_initial, result, unreliable_faulted_buses, log >>

\* line 1539: one run of the decrement pass
DecrementRun ==
    /\ pc = "decrement_run"
    /\ Main("decr", fault_times[i])
    /\ i' = i + 1
    /\ pc' = IF i = Len(fault_times) THEN "combine_decrement" ELSE "decrement_update"
    /\ UNCHANGED << control, parser, infeed, delete, engine, fault_times, missing, df_machines, psse_machines,
                    df_initial, result, unreliable_faulted_buses >>

\* lines 1547-1554: the decrement pass is combined, Ibsym is taken from it
\* and the table is assembled
CombineDecrement ==
    /\ pc = "combine_decrement"
    /\ LET all == ProcessAll
       IN  \/ CombineRaises(all)
           \/ /\ CombineReturns(all)
              /\ result' = AddBusbarData(
                               ProcessCombinedResults(UpdateIbsym(df_initial, Combined(all))))
              /\ pc' = "done"
              /\ UNCHANGED << control, parser, infeed, delete, engine, fault_times, missing, i, df_machines,
                              psse_machines, converted, df_initial, log >>

Next ==
    \/ Setup
    \/ InitialRun
    \/ CombineInitial
    \/ DecrementUpdate
    \/ DecrementRun
    \/ CombineDecrement

Spec == Init /\ [][Next]_vars

\* the fault time of the last run of an earlier study of the same instance
EarlierTime == 600

\* the BkdyFile an earlier study left in bkdy_files under its fault time
\* (main, lines 1402-1403, adds to the dictionary of line 1289 and nothing
\* empties it): processed, its file deleted or kept as the earlier delete
\* argument was
EarlierBkdyFile(deleted) ==
    [output_file |-> IF deleted THEN None ELSE FileName("decr", EarlierTime),
     fault_time  |-> EarlierTime,
     df          |-> ParseReport(EngineReport(FaultedBuses, EarlierTime,
                                              [b \in Buses |-> NoMachine], NoOverflow)).df]

\* calculate_fault_currents called on an instance that has made an earlier
\* study
InitReuse ==
    /\ pc = "idle"
    /\ fault_times \in SeqsUpTo(TimeChoices, MaxTimes)
    /\ \E input \in StudyInputs : engine = input[1] /\ delete = input[2]
    /\ missing = {}
    /\ i = 1
    /\ df_machines = [b \in Buses |-> MachineTemplate(b)]
    /\ psse_machines = [b \in Buses |-> NoMachine]
    /\ converted = TRUE
    /\ \E deleted \in BOOLEAN :
          /\ bkdy_files = (EarlierTime :> EarlierBkdyFile(deleted))
          /\ files = IF deleted THEN <<>>
                     ELSE (FileName("decr", EarlierTime) :>
                              EngineReport(FaultedBuses, EarlierTime,
                                           [b \in Buses |-> NoMachine], NoOverflow))
    /\ df_initial = <<>>
    /\ result = <<>>
    /\ unreliable_faulted_buses = <<>>
    /\ log = <<>>
    /\ events = <<>>
    /\ parser = ParserIdle
    /\ infeed = InfeedIdle
    /\ control = ControlIdle

SpecReuse == InitReuse /\ [][Next]_vars

\* the study variables while no study is made
StudyIdle ==
    /\ pc = "off"
    /\ fault_times = <<>>
    /\ engine = Plain
    /\ delete = TRUE
    /\ missing = {}
    /\ i = 1
    /\ df_machines = [b \in Buses |-> MachineTemplate(b)]
    /\ psse_machines = [b \in Buses |-> NoMachine]
    /\ converted = FALSE
    /\ files = <<>>
    /\ bkdy_files = <<>>
    /\ df_initial = <<>>
    /\ result = <<>>
    /\ unreliable_faulted_buses = <<>>
    /\ log = <<>>
    /\ events = <<>>

\* ------------------------------------------------------------------------
\* LoadData.summary and G74FaultInfeed on a network model
\* (src/g74/psse.py 1725-1735, 1837-2072).  Loads are in 0.01 MVA, the
\* multipliers in hundredths, machine ratings in 1e-4 MVA.
\* ------------------------------------------------------------------------
\* the number of calculate_machine_impedance / add_machines calls explored
MaxCalls == 2

\* constants.G74.min_load_mva, mva_33, mva_11, mva_hv
MinLoadMva == 15
Mva33 == 116
Mva11 == 116
MvaHv == 260
\* constants.Busbars.generator_bus_type_code
GeneratorBusTypeCode == 2
\* constants.G74.machine_id
MachineId == "LD"

\* the buses of the case: 33 kV, 11 kV and 132 kV
CaseBuses == {1, 2, 3}

\* the loads connected at a bus (LoadData.df), by bus
LoadLists(b) == IF b = 3 THEN {<<>>, <<16>>} ELSE {<<>>, <<14>>, <<15>>, <<9, 7>>}

\* the fault times calculate_machine_impedance is called with
InfeedTimes == {1, 2, 600}

\* the sequence reactances of a machine, set telling whether
\* seq_machine_data_3 has written them
UnsetSeq == [set |-> FALSE, xsubtr |-> 0, xtrans |-> 0, xsynch |-> 0]

\* the case before any equivalent machine is added: bus 2 is a generator bus
\* with a plant and a machine "1", the others are load buses
InitialCase ==
    [b \in CaseBuses |->
        IF b = 2
        THEN [type |-> 2, plant |-> TRUE,
              machines |-> ("1" :> [mbase |-> 1000000, xsource |-> 2000, seq |-> UnsetSeq])]
        ELSE [type |-> 1, plant |-> FALSE, machines |-> <<>>]]

\* the call of add_machines in which the engine rejects a write, the bus and
\* the function rejected: plant_data, machine_data_2 or seq_machine_data_3
NoCaseReject == [call |-> 0, bus |-> 0, kind |-> ""]
CaseRejects ==
    {NoCaseReject} \cup [call : {1, 2}, bus : {2}, kind : {"plant", "mac", "seq"}]
        \cup [call : {1}, bus : {1}, kind : {"plant"}]

RECURSIVE Sum(_)
Sum(seq) == IF seq = <<>> THEN 0 ELSE Head(seq) + Sum(Tail(seq))

\* LoadData.summary: the total load by bus, of the buses above the minimum
Summary(loads) ==
    LET grouped == {b \in DOMAIN loads : loads[b] # <<>>}
    IN  [b \in {c \in grouped : Sum(loads[c]) > MinLoadMva} |-> [load |-> Sum(loads[b])]]

\* identify_machine_parameters(hv_machines): df_machines
IdentifiedMachines(loads, hv_machines) ==
    LET summary == Summary(loads)
    IN  [b \in DOMAIN summary |->
            [load      |-> summary[b].load,
             nominal   |-> Nominal[b],
             voltage   |-> IF b \in hv_machines THEN "hv" ELSE "lv",
             label_mva |-> (IF b \in hv_machines THEN MvaHv ELSE Mva11) * summary[b].load]]

\* MachinesWithMva as it would be had the rating of identify_machine_parameters
\* been kept
MachinesKeepingMva(df) ==
    [b \in DOMAIN df |-> MachineTemplate(b) @@ df[b]]

\* calculate_machine_mva_values: the tier's parameters and rating by bus
MachinesWithMva(df) ==
    LET df_33 == [b \in {c \in DOMAIN df : df[c].nominal > 11} |->
                     [Parameters33 @@ df[b] EXCEPT !.label_mva = Mva33 * df[b].load]]
        df_11 == [b \in {c \in DOMAIN df : df[c].nominal <= 11} |->
                     [Parameters11 @@ df[b] EXCEPT !.label_mva = Mva11 * df[b].load]]
    IN  df_33 @@ df_11

\* WriteBus as it would be had the bus type not been changed
WriteBusKeepingType(bus, machine, bus_data, plant_data, entry, reject) ==
    LET plant1    == entry.plant \/ (bus \notin plant_data /\ reject # "plant")
        ierr_mac  == reject = "mac" \/ ~plant1
        old_seq   == IF MachineId \in DOMAIN entry.machines
                     THEN entry.machines[MachineId].seq ELSE UnsetSeq
        machines1 == IF ierr_mac THEN entry.machines
                     ELSE (MachineId :> [mbase   |-> machine.label_mva,
                                         xsource |-> machine.xsource,
                                         seq     |-> old_seq]) @@ entry.machines
        ierr_seq  == reject = "seq" \/ MachineId \notin DOMAIN machines1
        machines2 == IF ierr_seq THEN machines1
                     ELSE [machines1 EXCEPT ![MachineId].seq =
                              [set |-> TRUE, xsubtr |-> machine.xsubtr,
                               xtrans |-> machine.xtrans, xsynch |-> machine.xsynch]]
    IN  [entry |-> [type |-> entry.type, plant |-> plant1, machines |-> machines2],
         error |-> (bus \notin plant_data /\ reject = "plant") \/ ierr_mac \/ ierr_seq]

\* add_machines for one bus, lines 2006-2053: bus_data_3, plant_data,
\* machine_data_2 and seq_machine_data_3 and what the engine makes of them.
\* The engine refuses a machine at a bus without plant data and sequence data
\* for a machine that does not exist, besides the call it is set to reject.
WriteBus(bus, machine, bus_data, plant_data, entry, reject) ==
    LET type1      == IF bus_data[bus] = 1 THEN GeneratorBusTypeCode ELSE entry.type
        ierr_plant == bus \notin plant_data /\ reject = "plant"
        plant1     == entry.plant \/ (bus \notin plant_data /\ ~ierr_plant)
        ierr_mac   == reject = "mac" \/ ~plant1
        old_seq    == IF MachineId \in DOMAIN entry.machines
                      THEN entry.machines[MachineId].seq ELSE UnsetSeq
        machines1  == IF ierr_mac THEN entry.machines
                      ELSE (MachineId :> [mbase   |-> machine.label_mva,
                                          xsource |-> machine.xsource,
                                          seq     |-> old_seq]) @@ entry.machines
        ierr_seq   == reject = "seq" \/ MachineId \notin DOMAIN machines1
        machines2  == IF ierr_seq THEN machines1
                      ELSE [machines1 EXCEPT ![MachineId].seq =
                               [set |-> TRUE, xsubtr |-> machine.xsubtr,
                                xtrans |-> machine.xtrans, xsynch |-> machine.xsynch]]
    IN  [entry |-> [type |-> type1, plant |-> plant1, machines |-> machines2],
         error |-> ierr_plant \/ ierr_mac \/ ierr_seq]

\* add_machines: the case after the loop over df_machines, and the buses for
\* which an error is logged (lines 2056-2067)
WrittenCase(machines, bus_data, plant_data, case, reject) ==
    LET written(b) == WriteBus(b, machines[b], bus_data, plant_data, case[b],
                               IF reject.bus = b THEN reject.kind ELSE "")
    IN  [case   |-> [b \in DOMAIN case |->
                        IF b \in DOMAIN machines THEN written(b).entry ELSE case[b]],
         errors |-> {b \in DOMAIN machines : written(b).error}]

\* the rejection the engine makes in the next call of add_machines
RejectNow == IF infeed.reject.call = infeed.adds + 1 THEN infeed.reject ELSE NoCaseReject

\* an entry of the history of the calls: the operation, its fault time, the
\* case before and after, df_machines after and the buses that failed
InfeedCall(op, t, update, before, after, machines, errors) ==
    [op |-> op, t |-> t, update |-> update, before |-> before, after |-> after,
     machines |-> machines, errors |-> errors]

InitInfeed ==
    /\ StudyIdle
    /\ parser = ParserIdle
    /\ control = ControlIdle
    /\ \E loads \in [CaseBuses -> UNION {LoadLists(b) : b \in CaseBuses}] :
       \E reject \in CaseRejects :
          /\ \A b \in CaseBuses : loads[b] \in LoadLists(b)
          /\ infeed = [stage |-> "new", loads |-> loads, reject |-> reject,
                       hv_machines |-> {}, df_machines |-> <<>>,
                       bus_data |-> <<>>, plant_data |-> {},
                       case |-> InitialCase, adds |-> 0, log |-> <<>>, calls |-> <<>>]

\* identify_machine_parameters(hv_machines): LoadData().summary(), BusData()
\* and PlantData() are read from the case
IdentifyMachineParameters ==
    /\ infeed.stage = "new"
    /\ \E hv_machines \in {{}, {1}} :
          infeed' = [infeed EXCEPT
                        !.stage = "identified",
                        !.hv_machines = hv_machines,
                        !.df_machines = IdentifiedMachines(infeed.loads, hv_machines),
                        !.bus_data = [b \in CaseBuses |-> infeed.case[b].type],
                        !.plant_data = {b \in CaseBuses : infeed.case[b].plant}]
    /\ UNCHANGED << study_vars, parser, control >>

\* calculate_machine_mva_values
CalculateMachineMvaValues ==
    /\ infeed.stage = "identified"
    /\ infeed' = [infeed EXCEPT !.stage = "calculated",
                                !.df_machines = MachinesWithMva(infeed.df_machines)]
    /\ UNCHANGED << study_vars, parser, control >>

\* add_machines on the machines given: the case, the log and the history
AddedTo(op, t, update, machines) ==
    LET got == WrittenCase(machines, infeed.bus_data, infeed.plant_data, infeed.case,
                           RejectNow)
    IN  [infeed EXCEPT
            !.df_machines = machines,
            !.case = got.case,
            !.adds = @ + 1,
            !.log = @ \o [k \in 1..Cardinality(got.errors) |-> "add_machine_error"],
            !.calls = Append(@, InfeedCall(op, t, update, infeed.case, got.case,
                                           machines, got.errors))]

\* calculate_machine_impedance(fault_time, update)
CalculateMachineImpedance ==
    /\ infeed.stage = "calculated"
    /\ Len(infeed.calls) < MaxCalls
    /\ \E t \in InfeedTimes : \E update \in BOOLEAN :
          LET machines == MachineImpedance(infeed.df_machines, t)
          IN  infeed' = IF update THEN AddedTo("impedance", t, TRUE, machines)
                        ELSE [infeed EXCEPT
                                 !.df_machines = machines,
                                 !.calls = Append(@, InfeedCall("impedance", t, FALSE,
                                                   infeed.case, infeed.case, machines, {}))]
    /\ UNCHANGED << study_vars, parser, control >>

\* add_machines called by itself
AddMachinesCall ==
    /\ infeed.stage = "calculated"
    /\ Len(infeed.calls) < MaxCalls
    /\ infeed' = AddedTo("add", 0, TRUE, infeed.df_machines)
    /\ UNCHANGED << study_vars, parser, control >>

NextInfeed ==
    \/ IdentifyMachineParameters
    \/ CalculateMachineMvaValues
    \/ CalculateMachineImpedance
    \/ AddMachinesCall

SpecInfeed == InitInfeed /\ [][NextInfeed]_vars

\* ------------------------------------------------------------------------
\* extract_values and one BkdyFile object on one report file
\* (src/g74/psse.py 31-88, 1739-1834)
\* ------------------------------------------------------------------------
\* the fields a line may have beyond the expected seven
MaxExtra == 1
\* the calls of process_bkdy_output made on the object
MaxProcess == 3

\* the seven fields of a well formed line, and one of n fields
FieldValue(k) == Num((100 + 10 * k) * 1000)
Fields(n) == [k \in 1..n |-> FieldValue(k)]

\* the lines of n fields with at most one field replaced by an overflow
\* text, by NaN or by a word
ParserLines ==
    UNION {{Fields(n)} \cup
           {[Fields(n) EXCEPT ![p] = tok] :
                p \in 1..n, tok \in {Stars, Stars7, Infinity, Infin, NaN, Text}} :
           n \in (ExpectedLength - 1)..(ExpectedLength + MaxExtra)}

\* a report of the buses 1 and 2 in which the line of the given label of
\* bus 1 is the line chosen; a line of text follows the start marker, an
\* empty line the section of bus 1, and a bus line has the name and the
\* voltage of the bus after its number
ReportWith(label, toks) ==
    LET good == Fields(ExpectedLength)
        more == [k \in 1..ExpectedLength |-> Num(good[k].v + 5000)]
    IN  << Line(FALSE, "", <<IntTok(33)>>), Line(TRUE, "", <<>>),
           Line(FALSE, "", <<Text>>),
           Line(FALSE, "", <<IntTok(1), Text, Num(33000)>>),
           Line(FALSE, "cur", IF label = "cur" THEN toks ELSE good),
           Line(FALSE, "imp", IF label = "imp" THEN toks ELSE good),
           Line(FALSE, "", <<>>),
           Line(FALSE, "", <<IntTok(2), Text, Num(11000)>>),
           Line(FALSE, "cur", good),
           Line(FALSE, "imp", more) >>

NotExtracted == [done |-> FALSE, expected_length |-> 0, raised |-> FALSE, values |-> <<>>]

\* an entry of the history of the calls of process_bkdy_output: the delete
\* argument, the object and the disk before, and what the call did
ProcessCall(del, bf, disk, got) ==
    [delete |-> del, bf |-> bf, on_disk |-> bf.output_file \in DOMAIN disk,
     raised |-> got.raised, df |-> got.df, after |-> got.bf,
     parsed |-> bf.output_file # None /\ bf.output_file \in DOMAIN disk]

\* the turn of the loop not made yet
NotStored == [done |-> FALSE, raised |-> FALSE, df |-> <<>>]

InitParser ==
    /\ StudyIdle
    /\ infeed = InfeedIdle
    /\ control = ControlIdle
    /\ \E toks \in ParserLines : \E label \in {"cur", "imp"} :
          parser = [stage   |-> "made",
                    line    |-> toks,
                    label   |-> label,
                    extract |-> NotExtracted,
                    turn    |-> NotStored,
                    bf      |-> NewBkdyFile(FileName("test", G74PeakFaultTime),
                                            G74PeakFaultTime),
                    disk    |-> (FileName("test", G74PeakFaultTime)
                                     :> ReportWith(label, toks)),
                    calls   |-> <<>>]

\* extract_values(line, expected_length) on the line chosen
ExtractLine ==
    /\ parser.stage = "made"
    /\ ~parser.extract.done
    /\ \E expected_length \in {0, ExpectedLength} :
          LET got == ExtractValues(parser.line, expected_length)
          IN  parser' = [parser EXCEPT !.extract =
                            [done |-> TRUE, expected_length |-> expected_length,
                             raised |-> got.raised, values |-> got.values]]
    /\ UNCHANGED << study_vars, infeed, control >>

\* one turn of the loop of process_bkdy_output, lines 1794-1819, on the line
\* chosen, the start being reached and bus 1 being the bus of the section
StoreLine ==
    /\ parser.stage = "made"
    /\ ~parser.turn.done
    /\ LET st == ParseLine([start_reached |-> TRUE, bus |-> 1, df |-> <<>>, raised |-> FALSE],
                           Line(FALSE, parser.label, parser.line))
       IN  parser' = [parser EXCEPT !.turn = [done |-> TRUE, raised |-> st.raised,
                                              df |-> st.df]]
    /\ UNCHANGED << study_vars, infeed, control >>

\* bkdy_file.process_bkdy_output(delete)
ProcessOutput ==
    /\ parser.stage = "made"
    /\ Len(parser.calls) < MaxProcess
    /\ \E del \in BOOLEAN :
          LET got == ProcessBkdyOutput(parser.bf, parser.disk, del)
          IN  parser' = [parser EXCEPT
                            !.bf = got.bf,
                            !.disk = got.disk,
                            !.calls = Append(@, ProcessCall(del, parser.bf, parser.disk, got))]
    /\ UNCHANGED << study_vars, infeed, control >>

\* bkdy_file.output_file = None, set by the caller before any processing
ClearReference ==
    /\ parser.stage = "made"
    /\ parser.calls = <<>>
    /\ parser.bf.output_file # None
    /\ parser' = [parser EXCEPT !.bf.output_file = None]
    /\ UNCHANGED << study_vars, infeed, control >>

NextParser ==
    \/ ExtractLine
    \/ StoreLine
    \/ ProcessOutput
    \/ ClearReference

SpecParser == InitParser /\ [][NextParser]_vars

\* ------------------------------------------------------------------------
\* PsseControl: the subsystem and the conversion of the case
\* (src/g74/psse.py 665-1207)
\* ------------------------------------------------------------------------
\* the number of calls made on the object
MaxSteps == 4
\* the most calls of psspy.conl with apiopt=2 a case needs until no
\* unconverted load remains
MaxNeeded == 5

\* line 1116: the iteration count above which convert_load gives up
LoopLimit == 3
\* PsseControl.__init__: sid=-1
InitialSid == 0 - 1
\* the subsystem identifiers psspy.bsysinit accepts (0 to 11)
ValidSids == 0..11
\* the buses of the loaded case
ControlBuses == {11, 33}

\* define_bus_subsystem as it would be had the requested sid been returned
DefineBusSubsystemRequested(self_sid, buses, sid, c_sid) ==
    IF buses = <<>>
    THEN [raised |-> "", value |-> 0 - 1, sid |-> 0 - 1, inits |-> <<>>, adds |-> <<>>]
    ELSE LET retry == sid \notin ValidSids
             inits == IF retry THEN << sid, c_sid >> ELSE << sid >>
             used  == IF retry THEN c_sid ELSE sid
             bad   == {k \in DOMAIN buses : buses[k] \notin ControlBuses}
         IN  IF retry /\ c_sid \notin ValidSids
             THEN [raised |-> "ValueError", value |-> 0, sid |-> self_sid, inits |-> inits,
                   adds |-> <<>>]
             ELSE IF bad # {}
             THEN [raised |-> "ValueError", value |-> 0, sid |-> self_sid, inits |-> inits,
                   adds |-> SubSeq(buses, 1, CHOOSE k \in bad : \A h \in bad : k <= h)]
             ELSE [raised |-> "", value |-> sid, sid |-> used, inits |-> inits,
                   adds |-> buses]

\* define_bus_subsystem(buses, sid), lines 1143-1207: the exception raised
\* if any, the value returned, self.sid afterwards, the sids psspy.bsysinit
\* was called with and the buses psspy.bsyso was called with. c_sid is
\* constants.PSSE.sid; the engine rejects a sid outside 0..11 and a bus that
\* is not in the case.
DefineBusSubsystem(self_sid, buses, sid, c_sid) ==
    IF buses = <<>>
    THEN [raised |-> "", value |-> 0 - 1, sid |-> 0 - 1, inits |-> <<>>, adds |-> <<>>]
    ELSE LET retry == sid \notin ValidSids
             inits == IF retry THEN << sid, c_sid >> ELSE << sid >>
             used  == IF retry THEN c_sid ELSE sid
             bad   == {k \in DOMAIN buses : buses[k] \notin ControlBuses}
         IN  IF retry /\ c_sid \notin ValidSids
             THEN [raised |-> "ValueError", value |-> 0, sid |-> self_sid, inits |-> inits,
                   adds |-> <<>>]
             ELSE IF bad # {}
             THEN [raised |-> "ValueError", value |-> 0, sid |-> self_sid, inits |-> inits,
                   adds |-> SubSeq(buses, 1, CHOOSE k \in bad : \A h \in bad : k <= h)]
             ELSE [raised |-> "", value |-> used, sid |-> used, inits |-> inits,
                   adds |-> buses]

\* convert_gen, lines 1002-1049: psspy.cong returns 2 when the generators
\* are converted already and else the code the engine is set to return;
\* 1, 3, 4 and 5 end in an exception
ConvertGen(gens, cong) ==
    LET ierr == IF gens THEN 2 ELSE cong
    IN  [raised |-> IF ierr \in {1, 5} THEN "Error"
                    ELSE IF ierr \in {3, 4} THEN "ValueError" ELSE "",
         gens   |-> gens \/ ierr = 0,
         done   |-> ~gens /\ ierr = 0,
         called |-> TRUE]

RECURSIVE ConlLoop(_, _, _)
\* the while loop of convert_load, lines 1093-1124, entered with the
\* count i of the code: the case needs `needed` calls with apiopt=2 until no unconverted load
\* remains and the engine returns an error code in its call number fail_at
ConlLoop(count, needed, fail_at) ==
    LET j           == count + 1
        unconverted == IF j >= needed THEN 0 ELSE needed - j
    IN  IF fail_at = j + 1
        THEN [raised |-> "ValueError", loops |-> j, unconverted |-> unconverted, ierr |-> TRUE]
        ELSE IF j > LoopLimit
        THEN [raised |-> "SyntaxError", loops |-> j, unconverted |-> unconverted, ierr |-> FALSE]
        ELSE IF unconverted > 0 THEN ConlLoop(j, needed, fail_at)
        ELSE [raised |-> "", loops |-> j, unconverted |-> 0, ierr |-> FALSE]

\* convert_load, lines 1051-1141: the call with apiopt=1, the loop and the
\* call with apiopt=3
ConvertLoad(needed, fail_at) ==
    IF fail_at = 1
    THEN [raised |-> "ValueError", loops |-> 0, calls |-> 1, unconverted |-> needed,
          ierr |-> TRUE]
    ELSE LET loop == ConlLoop(0, needed, fail_at)
         IN  IF loop.raised # ""
             THEN [raised |-> loop.raised, loops |-> loop.loops, calls |-> 1 + loop.loops,
                   unconverted |-> loop.unconverted, ierr |-> loop.ierr]
             ELSE [raised |-> IF fail_at = loop.loops + 2 THEN "ValueError" ELSE "",
                   loops |-> loop.loops, calls |-> loop.loops + 2, unconverted |-> 0,
                   ierr |-> fail_at = loop.loops + 2]

\* no call of convert_gen or convert_load made
NoGen == [raised |-> "", gens |-> FALSE, done |-> FALSE, called |-> FALSE]
NoLoad == [raised |-> "", loops |-> 0, calls |-> 0, unconverted |-> 0, ierr |-> FALSE]

\* an entry for the last call made on the object
ControlCall(op, before, raised, value, inits, adds, gen, load) ==
    [op |-> op, before |-> before, raised |-> raised, value |-> value, inits |-> inits,
     adds |-> adds, gen |-> gen, load |-> load]

\* convert_sav_case as it would be had the flag not been looked at
ConvertSavCaseAlways(c, cong, needed, fail_at) ==
    LET before == [sid |-> c.sid, converted |-> c.converted]
        gen  == ConvertGen(c.gens, cong)
        load == IF gen.raised = "" THEN ConvertLoad(needed, fail_at) ELSE NoLoad
        raised == IF gen.raised # "" THEN gen.raised ELSE load.raised
    IN  [c EXCEPT !.gens = gen.gens,
                  !.gen_runs = @ + 1,
                  !.load_runs = @ + (IF gen.raised = "" /\ load.raised = "" THEN 1 ELSE 0),
                  !.converted = IF raised = "" THEN TRUE ELSE @,
                  !.steps = @ + 1,
                  !.last = ControlCall("convert", before, raised, 0, <<>>, <<>>,
                                       gen, load)]

\* convert_sav_case, lines 962-1000, on the object c: the generators and the
\* loads are converted unless the flag says they are; gen_runs and load_runs
\* count the calls of psspy.cong and the completed load conversions made on
\* the case loaded
ConvertSavCase(c, cong, needed, fail_at) ==
    LET before == [sid |-> c.sid, converted |-> c.converted]
    IN  IF c.converted
        THEN [c EXCEPT !.steps = @ + 1,
                       !.last = ControlCall("convert", before, "", 0, <<>>, <<>>, NoGen, NoLoad)]
        ELSE LET gen  == ConvertGen(c.gens, cong)
                 load == IF gen.raised = "" THEN ConvertLoad(needed, fail_at) ELSE NoLoad
                 raised == IF gen.raised # "" THEN gen.raised ELSE load.raised
             IN  [c EXCEPT !.gens = gen.gens,
                           !.gen_runs = @ + 1,
                           !.load_runs = @ + (IF gen.raised = "" /\ load.raised = ""
                                              THEN 1 ELSE 0),
                           !.converted = IF raised = "" THEN TRUE ELSE @,
                           !.steps = @ + 1,
                           !.last = ControlCall("convert", before, raised, 0, <<>>, <<>>,
                                                gen, load)]

\* load_data_case, lines 741-792: psspy.case loads the case, unless it
\* returns an error code, and the flag is reset
LoadDataCase(c, ok) ==
    LET before == [sid |-> c.sid, converted |-> c.converted]
    IN  IF ~ok
        THEN [c EXCEPT !.steps = @ + 1,
                       !.last = ControlCall("load", before, "ValueError", 0, <<>>, <<>>,
                                            NoGen, NoLoad)]
        ELSE [c EXCEPT !.gens = FALSE, !.gen_runs = 0, !.load_runs = 0,
                       !.converted = FALSE,
                       !.steps = @ + 1,
                       !.last = ControlCall("load", before, "", 0, <<>>, <<>>, NoGen, NoLoad)]

\* a PsseControl object with its case loaded; constants.PSSE.sid is 1, or 20
\* as test_bus_subsystem_fails sets it
InitControl ==
    /\ StudyIdle
    /\ parser = ParserIdle
    /\ infeed = InfeedIdle
    /\ \E c_sid \in {1, 20} :
          control = [stage |-> "on", c_sid |-> c_sid, sid |-> InitialSid, converted |-> FALSE,
                     gens |-> FALSE, gen_runs |-> 0, load_runs |-> 0, steps |-> 0,
                     last |-> ControlCall("new", [sid |-> InitialSid, converted |-> FALSE],
                                          "", 0, <<>>, <<>>, NoGen, NoLoad)]

\* psse.define_bus_subsystem(buses, sid)
DefineBusSubsystemCall ==
    /\ control.stage = "on"
    /\ control.steps < MaxSteps
    /\ \E buses \in {<<>>, <<11, 33>>, <<11, 99>>} : \E sid \in {2, 25} :
          LET got == DefineBusSubsystem(control.sid, buses, sid, control.c_sid)
          IN  control' = [control EXCEPT
                             !.sid = got.sid,
                             !.steps = @ + 1,
                             !.last = [ControlCall("subsystem",
                                                   [sid |-> control.sid,
                                                    converted |-> control.converted],
                                                   got.raised, got.value, got.inits, got.adds,
                                                   NoGen, NoLoad)
                                       EXCEPT !.adds = [buses |-> buses, sid |-> sid,
                                                        added |-> got.adds]]]
    /\ UNCHANGED << study_vars, parser, infeed >>

\* psse.convert_sav_case(), as BkdyFaultStudy.main calls it at line 1374
ConvertSavCaseCall ==
    /\ control.stage = "on"
    /\ control.steps < MaxSteps
    /\ \E cong \in {0, 1, 3} : \E needed \in 1..MaxNeeded : \E fail_at \in 0..(LoopLimit + 3) :
          control' = ConvertSavCase(control, cong, needed, fail_at)
    /\ UNCHANGED << study_vars, parser, infeed >>

\* psse.load_data_case()
LoadDataCaseCall ==
    /\ control.stage = "on"
    /\ control.steps < MaxSteps
    /\ \E ok \in BOOLEAN : control' = LoadDataCase(control, ok)
    /\ UNCHANGED << study_vars, parser, infeed >>

NextControl ==
    \/ DefineBusSubsystemCall
    \/ ConvertSavCaseCall
    \/ LoadDataCaseCall

SpecControl == InitControl /\ [][NextControl]_vars

\* ------------------------------------------------------------------------
\* Properties
\* ------------------------------------------------------------------------
Started == pc # "idle"
Done == pc = "done"

\* the caller's list in ascending order: the list run without the times added
RequestSorted == SelectSeq(fault_times, LAMBDA t : t \notin missing)

Count(seq, x) == Cardinality({k \in DOMAIN seq : seq[k] = x})

RunEvents == {k \in DOMAIN events : events[k].op = "run"}
WriteEvents == {k \in DOMAIN events : events[k].op = "write"}

\* the column names of the group of fault time t in the returned table
GroupColumns(t) == UNION {DOMAIN result.groups[t][b] : b \in DOMAIN result.groups[t]}

\* C1: once calculate_fault_currents has set up, the list of fault times run
\* holds the minimal and the peak fault time and is sorted ascending, no run
\* of the engine came before that, a warning is logged exactly for each of
\* the two times the caller's list lacked, and the returned table has a
\* column group for both
InvC1 ==
    /\ ~Started => RunEvents = {}
    /\ Started =>
          /\ G74MinFaultTime \in Range(fault_times)
          /\ G74PeakFaultTime \in Range(fault_times)
          /\ IsSorted(fault_times)
          /\ \A k \in RunEvents : events[k].t \in Range(fault_times)
          /\ Count(log, "min_fault_time_added") =
                 (IF G74MinFaultTime \in missing THEN 1 ELSE 0)
          /\ Count(log, "peak_fault_time_added") =
                 (IF G74PeakFaultTime \in missing THEN 1 ELSE 0)
    /\ Done => {G74MinFaultTime, G74PeakFaultTime} \subseteq DOMAIN result.groups

\* C1 witness: a study of a list that lacked both times has returned its table
WitC1 ==
    /\ Done
    /\ missing = {G74MinFaultTime, G74PeakFaultTime}
    /\ RequestSorted = <<1, 600>>
    /\ {G74MinFaultTime, G74PeakFaultTime} \subseteq DOMAIN result.groups

\* the column sets of section 4.4 with the derived X/R ratio
MinColumns == {"ik11", "ibsym", "ibasym", "idc", "x", "r", "x_r"}
PeakColumns == {"ip", "ibsym", "ibasym", "idc"}
OtherColumns == {"ibsym", "ibasym", "idc"}

\* C2 as claimed: the study of [0.0001, 0.01, 0.06] returns one row per bus
\* and exactly three fault-time column groups, nothing being added
CexC2 ==
    (Done /\ RequestSorted = <<1, 100, 600>>) =>
        /\ DOMAIN result.groups = {1, 100, 600}
        /\ \A t \in DOMAIN result.groups : DOMAIN result.groups[t] = Buses
        /\ GroupColumns(1) = MinColumns
        /\ GroupColumns(100) = PeakColumns
        /\ GroupColumns(600) = OtherColumns

\* C2 as amended: the study of [0.0001, 0.01, 0.06] returns one row per bus
\* and four fault-time column groups, 0.0 having been added with a warning;
\* 0.0 and 0.0001 have the minimal-time columns, 0.01 the peak-time columns
\* and 0.06 the other-time columns
ThmC2 ==
    (Done /\ RequestSorted = <<1, 100, 600>>) =>
        /\ DOMAIN result.groups = {0, 1, 100, 600}
        /\ missing = {G74MinFaultTime}
        /\ Count(log, "min_fault_time_added") = 1
        /\ \A t \in DOMAIN result.groups : DOMAIN result.groups[t] = Buses
        /\ \A b \in Buses :
              /\ DOMAIN result.groups[0][b] = MinColumns
              /\ DOMAIN result.groups[1][b] = MinColumns
              /\ DOMAIN result.groups[100][b] = PeakColumns
              /\ DOMAIN result.groups[600][b] = OtherColumns

\* C2 witness: the study of [0.0001, 0.01, 0.06] has returned its table
WitC2 == Done /\ RequestSorted = <<1, 100, 600>> /\ 0 \in DOMAIN result.groups

\* the report the engine wrote at the run of history entry k
ReportOf(k) ==
    EngineReport(FaultedBuses, events[k].t, events[k].model, OverflowIn(events[k].pass))

\* the runs whose report has an overflow sentinel in a line of bus b
SentinelRuns(b) ==
    {k \in RunEvents :
        \E l \in DOMAIN EngineRows(b, events[k].t, events[k].model, OverflowIn(events[k].pass)) :
            HasOverflowText(EngineRows(b, events[k].t, events[k].model,
                                       OverflowIn(events[k].pass))[l].toks)}

\* the cells of the parsed tables of bus b that came from a sentinel
SentinelParsedZero(b) ==
    \A k \in SentinelRuns(b) :
        LET o  == engine.overflow
            df == ParseReport(ReportOf(k)).df
            cols == IF o.line = "cur" THEN CurrentCols ELSE ImpedanceCols
        IN  \A name \in DOMAIN cols : cols[name] = o.pos => df[b][name] = 0

\* C3 as claimed: when the reports of a study are combined, every field that
\* was an overflow sentinel is 0.0 and its bus is in unreliable_faulted_buses
CexC3 ==
    Done => \A b \in Buses :
                SentinelRuns(b) # {} =>
                    /\ SentinelParsedZero(b)
                    /\ b \in Range(unreliable_faulted_buses)

\* C4 as claimed: after a run for which psspy.bkdy returned an error code the
\* study has raised, the report of the run is not registered for parsing and
\* no table is returned
CexC4 ==
    \A k \in RunEvents :
        events[k].failed =>
            /\ pc = "raised"
            /\ \A n \in DOMAIN bkdy_files :
                   bkdy_files[n].output_file # FileName(events[k].pass, events[k].t)
            /\ result = <<>>

\* the history entries of the runs of a pass for fault time t, and the table
\* the report of a run parses to
RunsOf(pass, t) == {k \in RunEvents : events[k].pass = pass /\ events[k].t = t}
ParsedAt(k) == ParseReport(ReportOf(k)).df

\* the parsed fields other than Ib_sym that the returned table exposes
InitialFields == {"ik11", "ip", "idc", "r", "x"}

\* C5: in the returned table, for every bus and fault time, Ib_sym is the
\* value parsed from the decrement-pass report of that bus and time, and the
\* initial current, peak, DC, R and X (and so X/R) are the values parsed from
\* the initial-pass report
ThmC5 ==
    Done => \A t \in DOMAIN result.groups : \A b \in DOMAIN result.groups[t] :
        LET row == result.groups[t][b]
        IN  /\ RunsOf("decr", t) # {} /\ RunsOf("init", t) # {}
            /\ \A k \in RunsOf("decr", t) : row.ibsym = ParsedAt(k)[b].ibsym
            /\ \A k \in RunsOf("init", t) :
                  /\ \A c \in DOMAIN row \cap InitialFields : row[c] = ParsedAt(k)[b][c]
                  /\ "x_r" \in DOMAIN row =>
                        row.x_r = [num |-> ParsedAt(k)[b].x, den |-> ParsedAt(k)[b].r]

\* C5 witness: a returned table holds, for a bus and a fault time, an Ib_sym
\* and a peak current for which the two passes reported different values
WitC5 ==
    /\ Done
    /\ \E t \in DOMAIN result.groups : \E b \in DOMAIN result.groups[t] :
          \E k \in RunsOf("init", t) : \E d \in RunsOf("decr", t) :
              /\ ParsedAt(k)[b].ibsym # ParsedAt(d)[b].ibsym
              /\ ParsedAt(k)[b].ip # ParsedAt(d)[b].ip
              /\ result.groups[t][b].ibsym = ParsedAt(d)[b].ibsym
              /\ result.groups[t][b].ip = ParsedAt(k)[b].ip

\* r is the square root of n to the last digit kept
IsRoot(r, n) == r >= 0 /\ r * r <= n /\ n < (r + 1) * (r + 1)

\* C6: in the returned table, for every bus and fault time, Ib_asym^2 =
\* Ib_sym^2 + DC^2 with Ib_sym the decrement-pass and DC the initial-pass
\* value, whatever Ib_asym the engine reported; for Ib_sym = 3.0 and
\* DC = 0.5 the recomputed value is 3.041
ThmC6 ==
    /\ IbAsym(3000, 500) = 3041
    /\ Done => \A t \in DOMAIN result.groups : \A b \in DOMAIN result.groups[t] :
          \A k \in RunsOf("init", t) : \A d \in RunsOf("decr", t) :
              IsRoot(result.groups[t][b].ibasym,
                     ParsedAt(d)[b].ibsym * ParsedAt(d)[b].ibsym
                         + ParsedAt(k)[b].idc * ParsedAt(k)[b].idc)

\* C6 witness: a returned table whose Ib_asym is the recomputed value and is
\* neither the Ib_asym of the initial-pass nor of the decrement-pass report
WitC6 ==
    /\ Done
    /\ \E t \in DOMAIN result.groups : \E b \in DOMAIN result.groups[t] :
          \E k \in RunsOf("init", t) : \E d \in RunsOf("decr", t) :
              /\ result.groups[t][b].ibasym # ParsedAt(k)[b].ibasym
              /\ result.groups[t][b].ibasym # ParsedAt(d)[b].ibasym
              /\ result.groups[t][b].idc > 0
              /\ IsRoot(result.groups[t][b].ibasym,
                        result.groups[t][b].ibsym * result.groups[t][b].ibsym
                            + result.groups[t][b].idc * result.groups[t][b].idc)

\* the column set of a classification, with the derived X/R ratio
ColumnSet(class) ==
    CASE class = "min"  -> MinColumns
      [] class = "peak" -> PeakColumns
      [] OTHER          -> OtherColumns

\* C7 as claimed: every column group of the returned table has the
\* minimal-time columns when its fault time is the minimal fault time, the
\* peak-time columns when it is the peak fault time, and the other-time
\* columns for every other fault time
CexC7 ==
    Done => \A t \in DOMAIN result.groups : \A b \in DOMAIN result.groups[t] :
        DOMAIN result.groups[t][b] =
            ColumnSet(IF t = G74MinFaultTime THEN "min"
                      ELSE IF t = G74PeakFaultTime THEN "peak" ELSE "other")

\* C7 as amended: every column group of the returned table has the
\* minimal-time columns when its fault time rounded to three decimals is the
\* minimal fault time, the peak-time columns when the rounded fault time is
\* the peak fault time, and the other-time columns otherwise
ThmC7 ==
    Done => \A t \in DOMAIN result.groups : \A b \in DOMAIN result.groups[t] :
        DOMAIN result.groups[t][b] =
            ColumnSet(IF Round3(t) = G74MinFaultTime THEN "min"
                      ELSE IF Round3(t) = G74PeakFaultTime THEN "peak" ELSE "other")

\* C7 witness: a returned table with a minimal-time group for 0.0001 s, a
\* peak-time group and an other-time group
WitC7 ==
    /\ Done
    /\ {1, G74PeakFaultTime, 600} \subseteq DOMAIN result.groups
    /\ GroupColumns(1) = MinColumns
    /\ GroupColumns(G74PeakFaultTime) = PeakColumns
    /\ GroupColumns(600) = OtherColumns

\* the subtransient reactance of the equivalent machine of bus b, and its
\* reactance at fault time t, less the transformer reactance of its tier
SubtransientX(b) == X11 - MachineTemplate(b).tx_x
DecayedX(b, t) == XValue(t) - MachineTemplate(b).tx_x

\* every reactance slot of machine m is x
HoldsX(m, x) == m.xsubtr = x /\ m.xtrans = x /\ m.xsynch = x

InitialRuns == {k \in RunEvents : events[k].pass = "init"}
DecrementRuns == {k \in RunEvents : events[k].pass = "decr"}

\* C8: at every run of the initial pass, whatever its fault time, every
\* equivalent machine in the model holds its t = 0 reactance, and every
\* write of machine parameters that came before the run was for t = 0
ThmC8 ==
    \A k \in InitialRuns :
        /\ \A b \in Buses :
              /\ HoldsX(events[k].machines[b], SubtransientX(b))
              /\ events[k].model[b].present => HoldsX(events[k].model[b], SubtransientX(b))
        /\ \E j \in WriteEvents : j < k
        /\ \A j \in WriteEvents : j < k => events[j].t = 0

\* C8 witness: the initial-pass run for 0.06 s has been made on a model whose
\* machines hold the t = 0 reactances
WitC8 ==
    \E k \in InitialRuns :
        /\ events[k].t = 600
        /\ \A b \in Buses : /\ events[k].model[b].present
                            /\ HoldsX(events[k].model[b], SubtransientX(b))
                            /\ SubtransientX(b) # DecayedX(b, 600)

\* C9: every run of the decrement pass for a fault time t comes right after
\* the write of the machine parameters for that t, with no other write or run
\* between them, so that the model holds X(t) for every machine the engine
\* let be written; and every run of the initial pass has been made before
\* the first write of the decrement pass
ThmC9 ==
    /\ \A k \in DecrementRuns :
          /\ k > 1
          /\ events[k - 1].op = "write"
          /\ events[k - 1].pass = "decr"
          /\ events[k - 1].t = events[k].t
          /\ events[k].model = events[k - 1].model
          /\ \A b \in Buses :
                /\ HoldsX(events[k].machines[b], DecayedX(b, events[k].t))
                /\ b \notin Failing("decr", events[k].t) =>
                      /\ events[k].model[b].present
                      /\ HoldsX(events[k].model[b], DecayedX(b, events[k].t))
    /\ \A j \in DOMAIN events :
          events[j].pass = "decr" =>
              /\ Cardinality(InitialRuns) = Len(fault_times)
              /\ \A k \in InitialRuns : k < j

\* C9 witness: the decrement-pass run for 0.06 s has been made on a model
\* whose machines hold the reactances of 0.06 s, after a run for another time
WitC9 ==
    \E k \in DecrementRuns :
        /\ events[k].t = 600
        /\ \E j \in DecrementRuns : j < k /\ events[j].t # 600
        /\ \A b \in Buses : /\ events[k].model[b].present
                            /\ HoldsX(events[k].model[b], DecayedX(b, 600))
                            /\ DecayedX(b, 600) # SubtransientX(b)

\* the reactances add_machines writes for the machines
Written(machines) == AddMachines(machines, [b \in Buses |-> NoMachine], {})

\* C10: from the machines of any reachable state and for any fault time,
\* calculate_machine_impedance applied twice leaves the machines as applied
\* once and writes the same values, the reactance of a machine with a
\* transformer being X(t) less the transformer reactance; and two successive
\* updates of a study for the same fault time leave equal machines
ThmC10 ==
    /\ \A t \in TimeChoices :
          LET once  == MachineImpedance(df_machines, t)
              twice == MachineImpedance(once, t)
          IN  /\ twice = once
              /\ Written(twice) = Written(once)
              /\ \A b \in Buses : HoldsX(twice[b], XValue(t) - MachineTemplate(b).tx_x)
    /\ \A j, k \in WriteEvents :
          (j < k /\ events[j].t = events[k].t /\ \A m \in WriteEvents : ~(j < m /\ m < k))
              => events[k].machines = events[j].machines

\* C10 witness: a study has updated the machines for 0.06 s twice in
\* succession, after an update for another fault time
WitC10 ==
    \E j, k \in WriteEvents :
        /\ j < k /\ events[j].t = 600 /\ events[k].t = 600
        /\ \A m \in WriteEvents : ~(j < m /\ m < k)
        /\ \E m \in WriteEvents : m < j /\ events[m].t # 600
        /\ events[k].machines = events[j].machines
        /\ events[k].machines[2].xsubtr = XValue(600) - TxX

RECURSIVE ExpGrowSeries(_, _, _, _)
\* the sum of term, term*(t/T11)/k, ... : e^(t/T11) in units of 1e-5
ExpGrowSeries(t, k, term, acc) ==
    IF term = 0 \/ k > 24 THEN acc
    ELSE ExpGrowSeries(t, k + 1, (term * t) \div (T11 * k), acc + (term * t) \div (T11 * k))
ExpGrow(t) == ExpGrowSeries(t, 1, 100000, 100000)

\* X'' * e^(t/T) above the threshold and X'' at or below it, in 1e-4 p.u.
GrownX(t) == IF t > PsseMinFaultTime THEN ((X11 \div 2) * ExpGrow(t)) \div 50000 ELSE X11

\* a and b differ by no more than a thousandth of b
Close(a, b) == (a - b) * 1000 <= b /\ (b - a) * 1000 <= b

\* the calls of calculate_machine_impedance in the history of the infeed
ImpedanceCalls ==
    IF infeed.stage = "off" THEN {}
    ELSE {k \in DOMAIN infeed.calls : infeed.calls[k].op = "impedance"}

\* C11: after calculate_machine_impedance(t) the subtransient, transient and
\* synchronous reactance of every machine are one value, X(t) less the
\* transformer reactance of the machine (zero above 11 kV, tx_x otherwise),
\* with X(t) = X'' for t at or below the threshold and X'' * e^(t/T), which is
\* greater than X'', for t above it
ThmC11 ==
    \A k \in ImpedanceCalls :
        LET t == infeed.calls[k].t
            machines == infeed.calls[k].machines
        IN  \A b \in DOMAIN machines :
                /\ machines[b].tx_x = (IF Nominal[b] > 11 THEN 0 ELSE TxX)
                /\ machines[b].xtrans = machines[b].xsubtr
                /\ machines[b].xsynch = machines[b].xsubtr
                /\ Close(machines[b].xsubtr + machines[b].tx_x, GrownX(t))
                /\ t <= PsseMinFaultTime => machines[b].xsubtr + machines[b].tx_x = X11
                /\ t > PsseMinFaultTime => machines[b].xsubtr + machines[b].tx_x > X11

\* C11 witness: the machines of a 33 kV and an 11 kV bus have been set for
\* 0.06 s and for 0.0002 s, each above the t = 0 reactance
WitC11 ==
    /\ infeed.stage = "calculated"
    /\ \E j, k \in ImpedanceCalls :
          /\ j < k /\ infeed.calls[j].t = 600 /\ infeed.calls[k].t = 2
          /\ {1, 2} \subseteq DOMAIN infeed.calls[k].machines
          /\ infeed.calls[j].machines[1].xsubtr > 4 * X11
          /\ infeed.calls[k].machines[1].xsubtr > X11
          /\ infeed.calls[k].machines[2].xsubtr = infeed.calls[k].machines[1].xsubtr - TxX

\* the tokens of a line of a kind among kinds
TokensOf(toks, kinds) == {k \in DOMAIN toks : toks[k].k \in kinds}

\* the number of values an extraction of the line has: one for a number, a
\* run of nine asterisks or a NaN, two for an Infinity, none for anything else
ValueCount(toks) ==
    Cardinality(TokensOf(toks, {"num", "stars", "infin", "nan"})) + 2 * Cardinality(TokensOf(toks, {"inf"}))

Extraction == parser.extract
ExtractionDone == parser.stage = "made" /\ parser.extract.done

\* C12 as claimed: extract_values with the expected field count of a line
\* type raises exactly when the number of values differs from that count and
\* the line holds neither a run of nine asterisks nor an Infinity, and returns
\* the extracted list otherwise
CexC12 ==
    (ExtractionDone /\ Extraction.expected_length = ExpectedLength) =>
        /\ Extraction.raised <=>
              (/\ ValueCount(parser.line) # ExpectedLength
               /\ TokensOf(parser.line, {"stars", "inf"}) = {})
        /\ Len(Extraction.values) = ValueCount(parser.line)

\* C12 as amended: extract_values with the expected field count of a line
\* type raises exactly when the number of values differs from that count and
\* the line holds neither a run of seven or more asterisks nor an Infinity,
\* and returns the extracted list otherwise
ThmC12 ==
    (ExtractionDone /\ Extraction.expected_length = ExpectedLength) =>
        /\ Extraction.raised <=>
              (/\ ValueCount(parser.line) # ExpectedLength
               /\ TokensOf(parser.line, {"stars", "stars7", "inf"}) = {})
        /\ Len(Extraction.values) = ValueCount(parser.line)

\* C12 witness: an extraction of more values than expected from a line with
\* an Infinity has returned its list
WitC12 ==
    /\ ExtractionDone
    /\ Extraction.expected_length = ExpectedLength
    /\ TokensOf(parser.line, {"inf"}) # {}
    /\ Len(Extraction.values) = ExpectedLength + 1
    /\ ~Extraction.raised

\* the calls of process_bkdy_output in the history of the object
ProcessCalls == IF parser.stage = "off" THEN {} ELSE DOMAIN parser.calls

\* the calls that deleted the report file
DeletingCalls ==
    {j \in ProcessCalls : parser.calls[j].bf.output_file # None
                          /\ parser.calls[j].after.output_file = None}

\* C13 as claimed: every call of process_bkdy_output made after the call that
\* deleted the report file raises
CexC13 ==
    \A j \in DeletingCalls : \A k \in ProcessCalls : j < k => parser.calls[k].raised

\* C13 as amended: every call of process_bkdy_output made after the call that
\* deleted the report file reads no file, raises nothing and returns the
\* table the deleting call parsed, which is not empty
ThmC13 ==
    \A j \in DeletingCalls : \A k \in ProcessCalls :
        j < k => /\ ~parser.calls[k].raised
                 /\ ~parser.calls[k].parsed
                 /\ parser.calls[k].df = parser.calls[j].df
                 /\ parser.calls[k].df # <<>>
                 /\ parser.calls[k].after = parser.calls[k].bf

\* C13 witness: two calls have been made after the call that deleted the file
WitC13 ==
    /\ parser.stage = "made"
    /\ \E j \in DeletingCalls : \E k \in ProcessCalls :
          /\ j < k /\ j + 1 < k
          /\ parser.calls[j].delete
          /\ parser.disk = <<>>
          /\ parser.calls[k].df = parser.calls[j].df

\* the calls made on an object whose file reference was None
NoFileCalls == {k \in ProcessCalls : parser.calls[k].bf.output_file = None}

\* C14: a call of process_bkdy_output on an object whose file reference is
\* None raises when the object holds no table and returns no table then, and
\* returns the table the object holds otherwise
ThmC14 ==
    \A k \in NoFileCalls :
        /\ parser.calls[k].bf.df = <<>> => parser.calls[k].raised /\ parser.calls[k].df = <<>>
        /\ parser.calls[k].bf.df # <<>> =>
              ~parser.calls[k].raised /\ parser.calls[k].df = parser.calls[k].bf.df
        /\ ~parser.calls[k].parsed
        /\ parser.calls[k].after = parser.calls[k].bf

\* C14 witness: the file reference of an object that never parsed was set to
\* None and the call raised
WitC14 ==
    /\ parser.stage = "made"
    /\ \E k \in NoFileCalls :
          /\ k = 1
          /\ parser.calls[k].bf.df = <<>>
          /\ parser.calls[k].on_disk = FALSE
          /\ parser.calls[k].raised
          /\ parser.bf.df = <<>>

ParseEventsOf(pass, t) ==
    {k \in DOMAIN events : events[k].op = "parse" /\ events[k].pass = pass
                           /\ events[k].t = t}

\* the report files the engine was asked to write so far
Produced == {FileName(events[k].pass, events[k].t) : k \in RunEvents}

\* C15: with delete set, a report file is parsed at most once, it is gone
\* from the disk only if a parse of it made after its last run returned, it
\* is still on the disk when its parse raised, and once the study has
\* returned every report file was parsed exactly once and none remains
ThmC15 ==
    delete =>
        /\ \A f \in Produced :
              /\ Cardinality(ParseEventsOf(f[1], f[2])) <= 1
              /\ f \notin DOMAIN files =>
                    \E k \in ParseEventsOf(f[1], f[2]) :
                        /\ ~events[k].failed
                        /\ \A r \in RunsOf(f[1], f[2]) : r < k
              /\ \A k \in ParseEventsOf(f[1], f[2]) : events[k].failed => f \in DOMAIN files
        /\ DOMAIN files \subseteq Produced
        /\ Done => /\ files = <<>>
                   /\ \A f \in Produced : Cardinality(ParseEventsOf(f[1], f[2])) = 1

\* C15 witness: a study of two fault times with delete set has returned, its
\* four report files parsed and removed
WitC15 ==
    /\ Done /\ delete
    /\ Cardinality(Produced) = 4
    /\ Cardinality({k \in DOMAIN events : events[k].op = "parse" /\ ~events[k].failed}) = 4
    /\ files = <<>>

\* the stages in which identify_machine_parameters has been called
Identified == infeed.stage \in {"identified", "calculated"}

\* C16: a bus is left out of the machines exactly when the total of its
\* loads is below G74.min_load_mva; a bus at or above it is among them
CexC16 ==
    Identified =>
        \A b \in CaseBuses :
            b \notin DOMAIN infeed.df_machines <=> Sum(infeed.loads[b]) < MinLoadMva

\* the buses whose total load LoadData.summary lets through
Qualifying == {b \in CaseBuses : Sum(infeed.loads[b]) > MinLoadMva}

\* the buses of df_machines that carry the template of tier A and of tier B
TierA ==
    {b \in DOMAIN infeed.df_machines :
        /\ infeed.df_machines[b].tx_x = 0
        /\ infeed.calls = <<>> =>
              /\ infeed.df_machines[b].xsubtr = X11
              /\ infeed.df_machines[b].xtrans = X11
              /\ infeed.df_machines[b].xsynch = X11
              /\ infeed.df_machines[b].xsource = X11}
TierB ==
    {b \in DOMAIN infeed.df_machines :
        /\ infeed.df_machines[b].tx_x = TxX
        /\ infeed.calls = <<>> =>
              /\ infeed.df_machines[b].xsubtr = X11 - TxX
              /\ infeed.df_machines[b].xtrans = X11 - TxX
              /\ infeed.df_machines[b].xsynch = X11 - TxX
              /\ infeed.df_machines[b].xsource = X11 - TxX}

\* C17: after identify_machine_parameters and calculate_machine_mva_values
\* the machines are those of the qualifying buses, each in one tier (tier A
\* iff its nominal voltage is above 11 kV, tier B iff not) with the template
\* of the tier, and rated at its total load times the multiplier of the tier
ThmC17 ==
    infeed.stage = "calculated" =>
        /\ DOMAIN infeed.df_machines = Qualifying
        /\ TierA \cap TierB = {}
        /\ TierA \cup TierB = Qualifying
        /\ \A b \in Qualifying :
              /\ b \in TierA <=> Nominal[b] > 11
              /\ b \in TierB <=> Nominal[b] <= 11
              /\ infeed.df_machines[b].load = Sum(infeed.loads[b])
              /\ infeed.df_machines[b].label_mva =
                    (IF Nominal[b] > 11 THEN Mva33 ELSE Mva11) * Sum(infeed.loads[b])

\* C17 witness: the three buses qualify, one of them named as an HV machine,
\* and their ratings have been calculated
WitC17 ==
    /\ infeed.stage = "calculated"
    /\ infeed.calls = <<>>
    /\ infeed.hv_machines = {1}
    /\ Qualifying = CaseBuses
    /\ TierA = {1, 3} /\ TierB = {2}
    /\ infeed.df_machines[1].label_mva = Mva33 * 16

\* the calls of the history that wrote machines to the case
WritingCalls ==
    IF infeed.stage = "off" THEN {}
    ELSE {k \in DOMAIN infeed.calls : infeed.calls[k].update}

\* C18: when a write of add_machines fails for a bus an error is logged, the
\* other buses are written, and the failing bus has no machine 'LD' in the
\* case afterwards
CexC18 ==
    \A k \in WritingCalls :
        LET call == infeed.calls[k]
        IN  call.errors # {} =>
               /\ infeed.log # <<>>
               /\ \A b \in DOMAIN call.machines \ call.errors :
                     /\ MachineId \in DOMAIN call.after[b].machines
                     /\ call.after[b].machines[MachineId].mbase = call.machines[b].label_mva
               /\ \A b \in call.errors : MachineId \notin DOMAIN call.after[b].machines

RECURSIVE MachineCountOf(_, _)
\* the number of machines of the buses given in a case
MachineCountOf(case, buses) ==
    IF buses = {} THEN 0
    ELSE LET b == CHOOSE c \in buses : TRUE
         IN  Cardinality(DOMAIN case[b].machines) + MachineCountOf(case, buses \ {b})
MachineCount(case) == MachineCountOf(case, DOMAIN case)

\* the writing calls up to which the engine has accepted every write
AcceptedCalls == {k \in WritingCalls : \A j \in WritingCalls : j <= k => infeed.calls[j].errors = {}}

\* C19: after every call of add_machines whose writes the engine accepted
\* each qualifying bus has machine 'LD' with the rating and reactances of the
\* call and a bus type of 2 or more; the first call adds one machine per
\* qualifying bus to the case and a later call adds none
ThmC19 ==
    \A k \in AcceptedCalls :
        LET call  == infeed.calls[k]
            first == \A j \in WritingCalls : k <= j
        IN  /\ DOMAIN call.machines = Qualifying
            /\ \A b \in Qualifying :
                  /\ MachineId \in DOMAIN call.after[b].machines
                  /\ call.after[b].machines[MachineId].mbase = call.machines[b].label_mva
                  /\ call.after[b].machines[MachineId].seq.set
                  /\ call.after[b].machines[MachineId].seq.xsubtr = call.machines[b].xsubtr
                  /\ call.after[b].type >= GeneratorBusTypeCode
                  /\ call.after[b].plant
            /\ \A b \in CaseBuses \ Qualifying : call.after[b] = call.before[b]
            /\ MachineCount(call.after) =
                  MachineCount(call.before) + (IF first THEN Cardinality(Qualifying) ELSE 0)
            /\ MachineCount(call.after) = MachineCount(InitialCase) + Cardinality(Qualifying)

\* C19 witness: add_machines has been called twice for three qualifying
\* buses, the second call for another fault time, and the case has three
\* machines more than at the start
WitC19 ==
    /\ infeed.stage = "calculated"
    /\ Qualifying = CaseBuses
    /\ AcceptedCalls = {1, 2}
    /\ infeed.calls[1].t # infeed.calls[2].t
    /\ MachineCount(infeed.calls[1].before) = 1
    /\ MachineCount(infeed.case) = 4
    /\ \A b \in CaseBuses : infeed.case[b].type = GeneratorBusTypeCode

\* the calls of process_bkdy_output that read the file and returned a table
ParsedCalls == {k \in ProcessCalls : parser.calls[k].parsed /\ ~parser.calls[k].raised}

\* value is the larger of a and b
IsLarger(value, a, b) == value >= a /\ value >= b /\ value \in {a, b}

\* the line chosen has every field in place but the one at position p, which
\* is the overflow sentinel
OverflowAt(p) ==
    /\ Len(parser.line) = ExpectedLength
    /\ parser.line[p] = Stars
    /\ \A q \in DOMAIN parser.line : q # p => parser.line[q] = FieldValue(q)

\* C20: in every row of a parsed table Ip is the larger of ip_method1 and
\* ip_method2 and DC the larger of idc_method1 and idc_method2; where the
\* field of one method is the overflow sentinel, read as 0, the positive
\* value of the other method's line is reported
ThmC20 ==
    \A k \in ParsedCalls :
        LET df == parser.calls[k].df
        IN  /\ DOMAIN df = {1, 2}
            /\ \A b \in DOMAIN df :
                  /\ {"ip", "idc", "ip_method1", "ip_method2", "idc_method1", "idc_method2"}
                         \subseteq DOMAIN df[b]
                  /\ IsLarger(df[b].ip, df[b].ip_method1, df[b].ip_method2)
                  /\ IsLarger(df[b].idc, df[b].idc_method1, df[b].idc_method2)
            /\ OverflowAt(7) =>
                  /\ (IF parser.label = "cur" THEN df[1].ip_method1 ELSE df[1].ip_method2) = 0
                  /\ df[1].ip = FieldValue(7).v \div NumToKA
                  /\ df[1].ip > 0
            /\ OverflowAt(5) =>
                  /\ (IF parser.label = "cur" THEN df[1].idc_method1 ELSE df[1].idc_method2) = 0
                  /\ df[1].idc = FieldValue(5).v \div NumToKA
                  /\ df[1].idc > 0

\* C20 witness: a report whose X/R peak of bus 1 overflowed was parsed; Ip of
\* bus 1 is the peak of the other method and Ip of bus 2 the larger of two
\* different peaks
WitC20 ==
    /\ parser.stage = "made"
    /\ parser.label = "imp"
    /\ OverflowAt(7)
    /\ \E k \in ParsedCalls :
          LET df == parser.calls[k].df
          IN  /\ df[1].ip_method2 = 0
              /\ df[1].ip_method1 = 170
              /\ df[1].ip = 170
              /\ df[2].ip_method1 = 170
              /\ df[2].ip_method2 = 175
              /\ df[2].ip = 175

\* the turn of the loop made on the line chosen
Turn == parser.turn
TurnDone == parser.stage = "made" /\ parser.turn.done

\* the line chosen is a line of seven numbers
SevenNumbers ==
    Len(parser.line) = ExpectedLength /\ \A q \in DOMAIN parser.line : parser.line[q].k = "num"

\* C21 as claimed: a FAULT CURRENT line of seven numbers is stored without an
\* exception and gives the row of the bus three fields
CexC21 ==
    (TurnDone /\ parser.label = "cur" /\ SevenNumbers) =>
        /\ ~Turn.raised
        /\ DOMAIN Turn.df = {1}
        /\ Cardinality(DOMAIN Turn.df[1]) = 3

\* C21 as amended: a FAULT CURRENT line of seven numbers is stored without an
\* exception and gives the row of the bus five fields: Ik'' from the first
\* number, Ibsym from the third, DC from the fifth, Ibasym from the sixth and
\* Ip from the seventh, each divided by num_to_kA
ThmC21 ==
    (TurnDone /\ parser.label = "cur" /\ SevenNumbers) =>
        /\ ~Turn.raised
        /\ DOMAIN Turn.df = {1}
        /\ DOMAIN Turn.df[1] = {"ik11", "ibsym", "idc_method1", "ibasym", "ip_method1"}
        /\ Turn.df[1].ik11 = parser.line[1].v \div NumToKA
        /\ Turn.df[1].ibsym = parser.line[3].v \div NumToKA
        /\ Turn.df[1].idc_method1 = parser.line[5].v \div NumToKA
        /\ Turn.df[1].ibasym = parser.line[6].v \div NumToKA
        /\ Turn.df[1].ip_method1 = parser.line[7].v \div NumToKA

\* C21 witness: a FAULT CURRENT line of seven numbers has been stored
WitC21 ==
    /\ TurnDone /\ parser.label = "cur" /\ SevenNumbers
    /\ ~Turn.raised
    /\ Turn.df[1].ik11 = 110
    /\ Turn.df[1].ip_method1 = 170

\* the value a field of the row was stored from
SourceOf(name) ==
    parser.line[(IF parser.label = "cur" THEN CurrentCols ELSE ImpedanceCols)[name]].v

\* C22 as claimed: every value stored from a line of seven numbers is the
\* number of the line divided by num_to_kA
CexC22 ==
    (TurnDone /\ SevenNumbers /\ ~Turn.raised) =>
        \A name \in DOMAIN Turn.df[1] : Turn.df[1][name] = SourceOf(name) \div NumToKA

\* C22 as amended: every current stored from a line of seven numbers is the
\* number of the line divided by num_to_kA; R, X and the pre-fault voltage
\* of a THEVENIN IMPEDANCE line are stored as they were extracted
ThmC22 ==
    (TurnDone /\ SevenNumbers /\ ~Turn.raised) =>
        \A name \in DOMAIN Turn.df[1] :
            Turn.df[1][name] = IF name \in {"r", "x", "v_prefault"} THEN SourceOf(name)
                               ELSE SourceOf(name) \div NumToKA

\* C22 witness: a THEVENIN IMPEDANCE line of seven numbers has been stored,
\* R as extracted and the peak current divided
WitC22 ==
    /\ TurnDone /\ SevenNumbers /\ parser.label = "imp"
    /\ ~Turn.raised
    /\ Turn.df[1].r = FieldValue(1).v
    /\ Turn.df[1].ip_method2 = FieldValue(7).v \div NumToKA
    /\ NumToKA > 1

\* the runs whose report has a negative X for bus b
NegativeRuns(b) ==
    {k \in RunEvents : b \in DOMAIN ParsedAt(k) /\ "x" \in DOMAIN ParsedAt(k)[b]
                       /\ ParsedAt(k)[b].x < 0}

\* C23: a bus with a negative X in a report of the initial or of the
\* decrement pass, at any fault time, is in unreliable_faulted_buses when the
\* study has returned, and has its row in every column group of the table
ThmC23 ==
    Done => \A b \in Buses :
                NegativeRuns(b) # {} =>
                    /\ b \in Range(unreliable_faulted_buses)
                    /\ \A t \in DOMAIN result.groups : b \in DOMAIN result.groups[t]
                    /\ b \in DOMAIN result.node

\* C23 witness: a study has returned in which only reports of the initial
\* pass, and not those of every fault time, had a negative X for bus 2
WitC23 ==
    /\ Done
    /\ NegativeRuns(2) # {}
    /\ \A k \in NegativeRuns(2) : events[k].pass = "init" /\ events[k].t >= 100
    /\ \E k \in RunEvents : events[k].pass = "init" /\ events[k].t < 100
    /\ 2 \in Range(unreliable_faulted_buses)
    /\ 1 \notin Range(unreliable_faulted_buses)
    /\ \A t \in DOMAIN result.groups : 2 \in DOMAIN result.groups[t]

\* the last call made on the PsseControl object
LastCall == control.last
LastIs(op) == control.stage = "on" /\ control.last.op = op

\* C24: define_bus_subsystem with no buses returns -1 without a call of
\* psspy.bsysinit; with a rejected sid it calls psspy.bsysinit again with
\* constants.PSSE.sid and returns that value; when that is rejected too it
\* raises ValueError and self.sid is as before; a value returned is self.sid
ThmC24 ==
    LastIs("subsystem") =>
        LET req == LastCall.adds
        IN  /\ req.buses = <<>> =>
                  /\ LastCall.raised = "" /\ LastCall.value = 0 - 1
                  /\ LastCall.inits = <<>> /\ req.added = <<>>
            /\ (req.buses # <<>> /\ req.sid \in ValidSids) => LastCall.inits = << req.sid >>
            /\ (req.buses # <<>> /\ req.sid \notin ValidSids) =>
                  /\ LastCall.inits = << req.sid, control.c_sid >>
                  /\ LastCall.raised = "" => LastCall.value = control.c_sid
                  /\ (control.c_sid \in ValidSids
                        /\ \A k \in DOMAIN req.buses : req.buses[k] \in ControlBuses)
                     => LastCall.raised = "" /\ req.added = req.buses
                  /\ control.c_sid \notin ValidSids =>
                        /\ LastCall.raised = "ValueError"
                        /\ req.added = <<>>
            /\ LastCall.raised = "" => LastCall.value = control.sid
            /\ LastCall.raised # "" => control.sid = LastCall.before.sid

\* C24 witness: sid 25 was rejected, constants.PSSE.sid was used instead and
\* returned, self.sid having been another value before
WitC24 ==
    /\ LastIs("subsystem")
    /\ LastCall.adds.sid = 25
    /\ LastCall.adds.buses = <<11, 33>>
    /\ LastCall.inits = <<25, 1>>
    /\ LastCall.raised = ""
    /\ LastCall.value = 1
    /\ control.sid = 1
    /\ LastCall.before.sid = 2

\* C25: converted is True after convert_sav_case returns and False after
\* load_data_case returns; a convert_sav_case made while it is True calls
\* neither psspy.cong nor psspy.conl, so the case loaded has its loads
\* converted at most once, and exactly once while the flag is True; the flag
\* stays False when the conversion raised
ThmC25 ==
    control.stage = "on" =>
        /\ (LastIs("convert") /\ LastCall.raised = "") => control.converted
        /\ (LastIs("load") /\ LastCall.raised = "") => ~control.converted
        /\ (LastIs("convert") /\ LastCall.before.converted) =>
              /\ ~LastCall.gen.called
              /\ LastCall.load.calls = 0
              /\ LastCall.raised = ""
        /\ (LastIs("convert") /\ LastCall.raised # "") =>
              ~LastCall.before.converted /\ ~control.converted
        /\ control.load_runs <= 1
        /\ control.converted <=> control.load_runs = 1
        /\ control.converted => control.gens

\* C25 witness: convert_sav_case was called on a converted case a second
\* time and converted nothing
WitC25 ==
    /\ LastIs("convert")
    /\ LastCall.before.converted
    /\ control.converted
    /\ control.gen_runs = 1
    /\ control.load_runs = 1
    /\ control.steps >= 2

\* C30: the loop of convert_load calls the engine at most four times, and
\* convert_load raises only when the engine returned an error code or
\* unconverted loads remain after the last call of the loop
CexC30 ==
    (LastIs("convert") /\ LastCall.load.calls > 0) =>
        /\ LastCall.load.loops <= LoopLimit + 1
        /\ LastCall.load.raised # "" =>
              LastCall.load.ierr \/ LastCall.load.unconverted > 0

\* the line chosen has its seven fields in place but the one at position p,
\* which is nine asterisks, an Infinity or the first part of an Infinity
SentinelAt(p) ==
    /\ Len(parser.line) = ExpectedLength
    /\ p \in DOMAIN parser.line
    /\ parser.line[p] \in {Stars, Infinity, Infin}
    /\ \A q \in DOMAIN parser.line : q # p => parser.line[q] = FieldValue(q)

\* C26: of a line with one field replaced by an overflow sentinel
\* extract_values returns as many values as expected, 0 at the place of the
\* sentinel and every other field at its own place, and the turn of the loop
\* stores every mapped column from the token of that column
CexC26 ==
    \A p \in 1..ExpectedLength :
        SentinelAt(p) =>
            /\ (ExtractionDone /\ Extraction.expected_length = ExpectedLength) =>
                  /\ ~Extraction.raised
                  /\ Len(Extraction.values) = ExpectedLength
                  /\ \A q \in 1..ExpectedLength :
                        Extraction.values[q] = IF q = p THEN 0 ELSE FieldValue(q).v
            /\ TurnDone =>
                  /\ ~Turn.raised
                  /\ \A name \in DOMAIN Turn.df[1] :
                        LET q == (IF parser.label = "cur" THEN CurrentCols
                                  ELSE ImpedanceCols)[name]
                        IN  Turn.df[1][name] \in
                               IF q = p THEN {0}
                               ELSE {FieldValue(q).v, FieldValue(q).v \div NumToKA}

CexC28 ==
    /\ df_initial # <<>> => DOMAIN df_initial \subseteq Range(fault_times)
    /\ Done => DOMAIN result.groups \subseteq Range(fault_times)

\* C29: after calculate_machine_impedance(t, update=True) the subtransient,
\* transient, synchronous and source reactance written to the case for a
\* machine are the reactance for t less the transformer reactance, none of
\* them the value for t = 0 when t is above the threshold
CexC29 ==
    \A k \in ImpedanceCalls \cap WritingCalls :
        LET call == infeed.calls[k]
        IN  call.errors = {} =>
                \A b \in DOMAIN call.machines :
                    LET written == call.after[b].machines[MachineId]
                        tx_x    == IF Nominal[b] > 11 THEN 0 ELSE TxX
                    IN  /\ Close(written.seq.xsubtr + tx_x, GrownX(call.t))
                        /\ Close(written.seq.xtrans + tx_x, GrownX(call.t))
                        /\ Close(written.seq.xsynch + tx_x, GrownX(call.t))
                        /\ Close(written.xsource + tx_x, GrownX(call.t))
                        /\ call.t > PsseMinFaultTime => written.xsource + tx_x > X11

====
